---- MODULE Spec2Model ----
(***************************************************************************)
(* Loom allocation engine of UZMANRAPOR: the planning dialog               *)
(* (app/planning_dialog.py) with its automatic and interactive allocators, *)
(* over the job table (Dinamik) and the machine table (Running Orders).    *)
(*                                                                         *)
(* Texts are sequences of one-character strings, so that str(), strip(),   *)
(* the regular expressions and the comparisons of the code are computed    *)
(* on what the cells hold and not on an idealised machine number.          *)
(***************************************************************************)
EXTENDS Integers, Sequences, FiniteSets, TLC

(***************************************************************************)
(* Bounds of the model.                                                    *)
(***************************************************************************)
MaxJobs == 3
MaxLooms == 3

(***************************************************************************)
(* Text helpers.                                                           *)
(***************************************************************************)
\* The characters used by the model, in ascending code point order.
Chars == <<" ", ",", "-", ".", "/", "0", "1", "2", "3", "4", "5", "6", "7", "8", "9",
           "A", "D", "K", "N", "T", "a", "d", "k", "l", "n", "o", "t">>

\* f(e) with e evaluated once: a local variable of the code.
Bind(e, f(_)) == CHOOSE r \in {f(v) : v \in {e}} : TRUE

Ord(c) == CHOOSE i \in 1..Len(Chars) : Chars[i] = c

Digit == {"0", "1", "2", "3", "4", "5", "6", "7", "8", "9"}

DigitVal(c) ==
    CASE c = "0" -> 0 [] c = "1" -> 1 [] c = "2" -> 2 [] c = "3" -> 3 [] c = "4" -> 4
      [] c = "5" -> 5 [] c = "6" -> 6 [] c = "7" -> 7 [] c = "8" -> 8 [] c = "9" -> 9

\* str.upper() / str.lower() on one character.
UpperChar(c) ==
    CASE c = "a" -> "A" [] c = "d" -> "D" [] c = "k" -> "K" [] c = "n" -> "N"
      [] c = "t" -> "T" [] OTHER -> c

LowerChar(c) ==
    CASE c = "A" -> "a" [] c = "D" -> "d" [] c = "K" -> "k" [] c = "N" -> "n"
      [] c = "T" -> "t" [] OTHER -> c

Upper(s) == [i \in 1..Len(s) |-> UpperChar(s[i])]
Lower(s) == [i \in 1..Len(s) |-> LowerChar(s[i])]

RECURSIVE LStrip(_)
LStrip(s) == IF s # <<>> /\ Head(s) = " " THEN LStrip(Tail(s)) ELSE s

\* The text up to its last character that is not a space.
RStrip(s) ==
    Bind({i \in 1..Len(s) : s[i] # " "}, LAMBDA keep :
        IF keep = {} THEN <<>>
        ELSE SubSeq(s, 1, CHOOSE i \in keep : \A j \in keep : j <= i))

\* str.strip()
Strip(s) == Bind(s, LAMBDA v : Bind(LStrip(v), LAMBDA w : RStrip(w)))

\* The longest prefix of s made of digits.
RECURSIVE DigitPrefix(_)
DigitPrefix(s) ==
    IF s # <<>> /\ Head(s) \in Digit THEN <<Head(s)>> \o DigitPrefix(Tail(s))
    ELSE <<>>

\* re.search(r"(\d+)", s): the first run of digits, <<>> when there is none.
RECURSIVE FirstDigitRun(_)
FirstDigitRun(s) ==
    IF s = <<>> THEN <<>>
    ELSE IF Head(s) \in Digit THEN DigitPrefix(s)
    ELSE FirstDigitRun(Tail(s))

\* int() of the first n digits of ds.
RECURSIVE ToIntUpTo(_, _)
ToIntUpTo(ds, n) ==
    IF n = 0 THEN 0 ELSE 10 * ToIntUpTo(ds, n - 1) + DigitVal(ds[n])

\* int(ds) for a non-empty sequence of digits.
ToInt(ds) == Bind(ds, LAMBDA v : ToIntUpTo(v, Len(v)))

\* s < t for Python strings (code point order).
RECURSIVE StrLess(_, _)
StrLess(s, t) ==
    IF t = <<>> THEN FALSE
    ELSE IF s = <<>> THEN TRUE
    ELSE IF Head(s) # Head(t) THEN Ord(Head(s)) < Ord(Head(t))
    ELSE StrLess(Tail(s), Tail(t))

\* A cell that holds NaN (a missing value of a pandas column).
NaN == <<"NaN">>

\* str(cell): the text of a cell; str(float("nan")) is "nan".
Str(cell) == IF cell = NaN THEN <<"n", "a", "n">> ELSE cell

(***************************************************************************)
(* Reed group key (io_layer/loaders.py).                                   *)
(***************************************************************************)
\* re.findall(r"\d+(?:\.\d+)?", s): the numbers of a text, left to right.
RECURSIVE ExtractNumbers(_)
ExtractNumbers(s) ==
    IF s = <<>> THEN <<>>
    ELSE IF Head(s) \notin Digit THEN ExtractNumbers(Tail(s))
    ELSE LET ip == DigitPrefix(s)
             rest == SubSeq(s, Len(ip) + 1, Len(s))
             fp == IF rest # <<>> /\ Head(rest) = "." THEN DigitPrefix(Tail(rest))
                   ELSE <<>>
             tok == IF fp # <<>> THEN ip \o <<".">> \o fp ELSE ip
         IN <<tok>> \o ExtractNumbers(SubSeq(s, Len(tok) + 1, Len(s)))

RECURSIVE StripLeadingZeros(_)
StripLeadingZeros(ds) ==
    IF Len(ds) > 1 /\ Head(ds) = "0" THEN StripLeadingZeros(Tail(ds)) ELSE ds

StripTrailingZeros(ds) ==
    Bind({i \in 1..Len(ds) : ds[i] # "0"}, LAMBDA keep :
        IF keep = {} THEN <<>>
        ELSE SubSeq(ds, 1, CHOOSE i \in keep : \A j \in keep : j <= i))

\* float(n) written back: str(int(round(f))) for a whole number, else str(f).
NumberText(tok) ==
    LET ip == DigitPrefix(tok)
        fp == IF Len(tok) > Len(ip) THEN SubSeq(tok, Len(ip) + 2, Len(tok)) ELSE <<>>
    IN IF StripTrailingZeros(fp) = <<>> THEN StripLeadingZeros(ip)
       ELSE StripLeadingZeros(ip) \o <<".">> \o StripTrailingZeros(fp)

RECURSIVE JoinDash(_)
JoinDash(toks) ==
    IF toks = <<>> THEN <<>>
    ELSE IF Len(toks) = 1 THEN NumberText(toks[1])
    ELSE NumberText(toks[1]) \o <<"-">> \o JoinDash(Tail(toks))

\* _numbers_key
NumbersKey(s) == JoinDash(ExtractNumbers(Strip(s)))

\* _tarak_key: the numbers of the label joined by "-", else the upper-cased label.
TarakKey(s) == IF NumbersKey(s) # <<>> THEN NumbersKey(s) ELSE Upper(Strip(s))

(***************************************************************************)
(* Eligibility and compatibility rules (app/planning_dialog.py).           *)
(***************************************************************************)
NEVER == {2430, 2432, 2434, 2436, 2438, 2440, 2442, 2444, 2446}
HAM_ALLOWED == 2447..2518
DENIM_ALLOWED_RANGE == <<2201, 2446>>

\* Python's None, for a tooth count that cannot be read.
None == -1

\* _extract_selv_teeth: the first integer of the selvedge text.
ExtractSelvTeeth(val) ==
    Bind(val, LAMBDA v :
        IF v = NaN THEN None
        ELSE Bind(Strip(Str(v)), LAMBDA s :
            IF s = <<>> THEN None
            ELSE Bind(FirstDigitRun(s), LAMBDA m :
                IF m = <<>> THEN None ELSE ToInt(m))))

Abs(x) == IF x < 0 THEN -x ELSE x

\* A faulty _selvedge_compatible_auto without the {8, 10, 18} rule.
SelvedgeCompatibleAuto_NoSpecial(job_sup, loom_sup) ==
    Bind(<<Strip(job_sup), Strip(loom_sup)>>, LAMBDA s :
        IF s[1] = <<>> \/ s[2] = <<>> THEN TRUE
        ELSE IF s[1] = s[2] THEN TRUE
        ELSE Bind(<<ExtractSelvTeeth(s[1]), ExtractSelvTeeth(s[2])>>, LAMBDA t :
            IF t[1] = None \/ t[2] = None THEN FALSE
            ELSE Abs(t[1] - t[2]) <= 2))

\* _selvedge_compatible_auto
SelvedgeCompatibleAuto(job_sup, loom_sup) ==
    Bind(<<Strip(job_sup), Strip(loom_sup)>>, LAMBDA s :
        LET js == s[1]
            ls == s[2]
            special == {8, 10, 18}
        IN IF js = <<>> \/ ls = <<>> THEN TRUE
           ELSE IF js = ls THEN TRUE
           ELSE Bind(<<ExtractSelvTeeth(js), ExtractSelvTeeth(ls)>>, LAMBDA t :
               LET t_job == t[1]
                   t_loom == t[2]
               IN IF t_job = None \/ t_loom = None THEN FALSE
                  ELSE IF t_job \in special /\ t_loom \in special THEN TRUE
                  ELSE Abs(t_job - t_loom) <= 2))

\* _orgu_prefix
OrguPrefix(val) ==
    Bind(Strip(val), LAMBDA s : IF s = <<>> THEN <<>> ELSE Upper(SubSeq(s, 1, 1)))

\* A faulty _orgu_compatible that compares the first characters as written.
OrguCompatible_CaseSensitive(job_orgu, loom_orgu) ==
    Bind(<<Strip(job_orgu), Strip(loom_orgu)>>, LAMBDA p :
        IF p[1] = <<>> \/ p[2] = <<>> THEN TRUE
        ELSE ~((p[1][1] = "3" /\ p[2][1] = "K") \/ (p[1][1] = "K" /\ p[2][1] = "3")))

\* _orgu_compatible
OrguCompatible(job_orgu, loom_orgu) ==
    Bind(<<OrguPrefix(job_orgu), OrguPrefix(loom_orgu)>>, LAMBDA p :
        LET job_prefix == p[1]
            loom_prefix == p[2]
        IN IF job_prefix = <<>> \/ loom_prefix = <<>> THEN TRUE
           ELSE ~((job_prefix = <<"3">> /\ loom_prefix = <<"K">>)
                  \/ (job_prefix = <<"K">> /\ loom_prefix = <<"3">>)))

\* A faulty _loom_in_category that does not look at NEVER.
LoomInCategory_NoNever(n, category) ==
    IF category = "HAM" THEN n \in HAM_ALLOWED
    ELSE DENIM_ALLOWED_RANGE[1] <= n /\ n <= DENIM_ALLOWED_RANGE[2]

\* _loom_in_category, called with the machine number as an int.
LoomInCategory(n, category) ==
    IF n \in NEVER THEN FALSE
    ELSE IF category = "HAM" THEN n \in HAM_ALLOWED
    ELSE DENIM_ALLOWED_RANGE[1] <= n /\ n <= DENIM_ALLOWED_RANGE[2]

(***************************************************************************)
(* The tables.  A job row holds Tarak Grubu (label), _TarakKey (key),      *)
(* _DyeCategory (cat), _LeventHasDigits (digits), Mamul Termin (due),      *)
(* NOTLAR (note), Zemin Orgu (orgu), Sus Kenar (sup) and Tezgah Numarasi   *)
(* (tz).  A machine row holds Tezgah No (tz), Tarak Grubu (label),         *)
(* _TarakKey (key), _OpenTezgahFlag (open), _KalanMetreNorm (kalan),       *)
(* Sus Kenar (sup) and Orgu Kodu (orgu).                                   *)
(***************************************************************************)
\* load_dinamik_any: the derived columns of a job row.
Job(label, cat, digits, due, note, orgu, sup, tz) ==
    [label |-> label, key |-> TarakKey(Str(label)), cat |-> cat, digits |-> digits,
     due |-> due, note |-> note, orgu |-> orgu, sup |-> sup, tz |-> tz]

\* load_running_orders: the derived columns of a machine row.
Loom(tz, label, open, kalan, sup, orgu) ==
    [tz |-> tz, label |-> label, key |-> TarakKey(Str(label)), open |-> open,
     kalan |-> kalan, sup |-> sup, orgu |-> orgu]

L20 == <<"2", "0", "/", "2">>
L20b == <<"2", "0", "-", "2">>
L30 == <<"3", "0", "/", "2">>

\* Job rows the job table is drawn from (due None: no date, NaT).  The pool
\* is not in due order, so the first row of a table need not be the earliest.
JobPool ==
    << Job(L20, "DENIM", TRUE, 3, <<"n", "o", "t">>, <<>>, <<>>, NaN),
       Job(L20, "DENIM", TRUE, 2, <<>>, <<"3", "A">>, <<"8", " ", "D">>, <<>>),
       Job(L20, "DENIM", TRUE, 1, NaN, NaN, <<"2", "0", " ", "D">>, <<>>),
       Job(L20b, "DENIM", TRUE, None, <<>>, <<>>, <<>>, <<>>),
       Job(L20, "HAM", TRUE, 1, <<>>, <<>>, <<>>, <<>>) >>

\* Machine rows the machine table is drawn from (kalan None: no number).
LoomPool ==
    << Loom(<<"2", "3", "0", "1">>, L20, TRUE, None, <<"1", "8", " ", "D">>, <<"k", "1">>),
       Loom(<<"2", "3", "0", "2">>, L20, FALSE, 80, <<"1", "0", " ", "D">>, <<"3", "A">>),
       Loom(<<"2", "3", "0", "4">>, L30, TRUE, None, <<>>, <<>>),
       Loom(<<"2", "4", "5", "0">>, L20, TRUE, None, <<>>, <<>>) >>

\* The values the threshold spin box is moved between.
Thresholds == {50, 100}

\* Non-decreasing index sequences of length n over 1..m (rows may repeat).
RECURSIVE MultiPicks(_, _, _)
MultiPicks(n, lo, m) ==
    IF n = 0 THEN {<<>>}
    ELSE UNION {{<<i>> \o r : r \in MultiPicks(n - 1, i, m)} : i \in lo..m}

Min(a, b) == IF a < b THEN a ELSE b

JobTables ==
    {[k \in 1..MaxJobs |-> JobPool[p[k]]] : p \in MultiPicks(MaxJobs, 1, Len(JobPool))}

\* A numeric Tezgah No column read as float64 prints as "2302.0".
AsFloat(row) == [row EXCEPT !.tz = @ \o <<".", "0">>]

\* The machine table: the first rows of the pool, Tezgah No read as text of
\* whole numbers or as float64.
LoomTables_Plain == [k \in 1..Min(MaxLooms, Len(LoomPool)) |-> LoomPool[k]]

LoomTables ==
    LET n == Min(MaxLooms, Len(LoomPool))
        plain == [k \in 1..n |-> LoomPool[k]]
    IN {plain, [k \in 1..n |-> AsFloat(plain[k])]}

(***************************************************************************)
(* The planning dialog: helpers of PlanningDialog.                         *)
(***************************************************************************)
Atla == <<"A", "t", "l", "a">>

\* No group selected (_current_group_label is None).
NoLabel == <<>>

\* A faulty mask_unassigned that also lets through a skipped job.
UnassignedOrSkipped(tz) == Str(tz) = <<>> \/ tz = NaN \/ tz = Atla

\* mask_unassigned: the cell prints as "" or is NaN.
Unassigned(tz) == Str(tz) = <<>> \/ tz = NaN

\* mask_cat: HAM rows for the HAM category, the others for DENIM.
CatMatches(job_cat, category) ==
    IF category = "HAM" THEN job_cat = "HAM" ELSE job_cat # "HAM"

\* a sorts before b on Mamul Termin (ascending, rows without a date last).
DueBefore(a, b) == a # None /\ (b = None \/ a < b)

\* A faulty candidate mask without mask_cat.
CandidateRows_AnyCategory(jobs, key, category) ==
    {i \in 1..Len(jobs) :
        /\ Str(jobs[i].key) = Str(key)
        /\ jobs[i].digits
        /\ Unassigned(jobs[i].tz)}

\* The candidate mask of both allocators and of the skip button.
CandidateRows(jobs, key, category) ==
    {i \in 1..Len(jobs) :
        /\ Str(jobs[i].key) = Str(key)
        /\ jobs[i].digits
        /\ Unassigned(jobs[i].tz)
        /\ CatMatches(jobs[i].cat, category)}

\* candidates.index[0] after sort_values(by=Mamul Termin): the earliest due
\* candidate, the first such row of the table on a tie; 0 when there is none.
FirstJob(jobs, key, category) ==
    Bind(CandidateRows(jobs, key, category), LAMBDA c :
        IF c = {} THEN 0
        ELSE CHOOSE i \in c :
               \A j \in c \ {i} :
                  \/ DueBefore(jobs[i].due, jobs[j].due)
                  \/ (~DueBefore(jobs[j].due, jobs[i].due) /\ i < j))

\* The first element of a non-empty set of texts in sorted() order.
MinText(S) == CHOOSE t \in S : \A u \in S \ {t} : StrLess(t, u)

RECURSIVE SortedTexts(_)
SortedTexts(S) ==
    IF S = {} THEN <<>> ELSE <<MinText(S)>> \o SortedTexts(S \ {MinText(S)})

\* _load_groups: the labels of the two list widgets.
LoadGroups(jobs, cat) ==
    SortedTexts({Str(jobs[i].label) : i \in {k \in 1..Len(jobs) :
                                              jobs[k].digits /\ jobs[k].cat = cat}})

\* _current_key: the key of the first job row that carries the label.
CurrentKey(jobs, label) ==
    LET rows == {i \in 1..Len(jobs) : Str(jobs[i].label) = Str(label)}
    IN IF label = NoLabel \/ rows = {} THEN <<>>
       ELSE Str(jobs[CHOOSE i \in rows : \A j \in rows : i <= j].key)

\* The note test of both allocators: any text but "", "nan", "none".
HasRemark(note) ==
    Bind(Strip(Str(note)), LAMBDA job_note :
        job_note # <<>>
        /\ Lower(job_note) \notin {<<>>, <<"n", "a", "n">>, <<"n", "o", "n", "e">>})

\* The texts under Tezgah Numarasi, as _load_looms_for_key_and_category reads them.
AssignedLooms(jobs) ==
    LET clean(t) == IF t \in {<<"n", "a", "n">>, <<"N", "o", "n", "e">>} THEN <<>> ELSE t
    IN {clean(Strip(Str(jobs[i].tz))) : i \in 1..Len(jobs)} \ {<<>>}

\* _allowed_row
AllowedRow(row, category, blk, dmy, assigned_looms) ==
    Bind(FirstDigitRun(Str(row.tz)), LAMBDA tzv :
       /\ tzv # <<>>
       /\ LoomInCategory(ToInt(tzv), category)
       /\ tzv \notin blk
       /\ tzv \notin dmy
       /\ tzv \notin assigned_looms)

\* _safe_loom_int
SafeLoomInt(t) ==
    Bind(FirstDigitRun(t), LAMBDA m : IF m = <<>> THEN 99999 ELSE ToInt(m))

\* a < b for two tuples of integers of the same length, first column first.
RECURSIVE TupleLess(_, _)
TupleLess(a, b) ==
    IF a = <<>> THEN FALSE
    ELSE IF Head(a) # Head(b) THEN Head(a) < Head(b)
    ELSE TupleLess(Tail(a), Tail(b))

\* sort_values(by=[...], ascending): the rows by their key, ties in row order.
SortRowsBy(rows0, key(_)) ==
    Bind(rows0, LAMBDA rows :
    Bind([i \in 1..Len(rows) |-> key(rows[i])], LAMBDA ks :
        LET rank(i) == Cardinality({j \in 1..Len(rows) :
                           \/ TupleLess(ks[j], ks[i])
                           \/ (ks[j] = ks[i] /\ j < i)})
        IN [k \in 1..Len(rows) |-> rows[CHOOSE i \in 1..Len(rows) : rank(i) = k - 1]]))

\* sort_values(by="Tezgah", key=_safe_loom_int): the rows keep their index labels.
SortView(v) == SortRowsBy(v, LAMBDA r : <<SafeLoomInt(r.Tezgah)>>)

\* The elements of a set of row numbers, ascending.
Ascending(I0) ==
    Bind(I0, LAMBDA I :
        [k \in 1..Cardinality(I) |->
            CHOOSE i \in I : Cardinality({j \in I : j < i}) = k - 1])

\* The rows of a table that satisfy keep, in table order (df[mask]).
FilterRows(rows0, keep(_)) ==
    Bind(rows0, LAMBDA rows :
        Bind(Ascending({i \in 1..Len(rows) : keep(rows[i])}), LAMBDA s :
            [k \in 1..Len(s) |-> rows[s[k]]]))

\* _build_view_from_running: a fresh frame, index labels 0, 1, ...
BuildViewFromRunning(src0) ==
    Bind(src0, LAMBDA src :
        [k \in 1..Len(src) |->
            [idx |-> k - 1, Tezgah |-> Str(src[k].tz), sup |-> Str(src[k].sup),
             orgu |-> Str(src[k].orgu)]])

\* A faulty _load_looms_for_key_and_category without the reed key filter.
LoadLooms_AllGroups(jobs, machines, key, category, thr, blk, dmy) ==
    Bind(AssignedLooms(jobs), LAMBDA assigned_looms :
    Bind(IF key = <<>> THEN <<>>
         ELSE FilterRows(machines, LAMBDA r :
                  AllowedRow(r, category, blk, dmy, assigned_looms)),
         LAMBDA df :
        [free |-> SortView(BuildViewFromRunning(
                      FilterRows(df, LAMBDA r : r.open = TRUE))),
         soon |-> SortView(BuildViewFromRunning(
                      FilterRows(df, LAMBDA r : /\ r.open # TRUE
                                                /\ r.kalan # None
                                                /\ r.kalan <= thr)))]))

\* _load_looms_for_key_and_category: the two tables it leaves in the models.
LoadLooms(jobs, machines, key, category, thr, blk, dmy) ==
    Bind(AssignedLooms(jobs), LAMBDA assigned_looms :
    Bind(IF key = <<>> THEN <<>>
         ELSE FilterRows(machines, LAMBDA r :
                  /\ Str(r.key) = Str(key)
                  /\ AllowedRow(r, category, blk, dmy, assigned_looms)),
         LAMBDA df :
        [free |-> SortView(BuildViewFromRunning(
                      FilterRows(df, LAMBDA r : r.open = TRUE))),
         soon |-> SortView(BuildViewFromRunning(
                      FilterRows(df, LAMBDA r : /\ r.open # TRUE
                                                /\ r.kalan # None
                                                /\ r.kalan <= thr)))]))

(***************************************************************************)
(* The two allocators.                                                     *)
(***************************************************************************)
\* A faulty write to Tezgah Numarasi that leaves the cell as it was.
SetTz_Lost(jobs, idx, text) == jobs

\* df_jobs.at[idx, "Tezgah Numarasi"] = text
SetTz(jobs, idx, text) == [jobs EXCEPT ![idx].tz = text]

\* A faulty _assign_first_job_auto that reports progress for a job with a
\* remark without marking it.
AssignFirstJobAuto_SkipNoMark(jobs, key, category, loom_no, loom_sup, loom_orgu) ==
    Bind(FirstJob(jobs, key, category), LAMBDA idx :
        LET job_orgu == Strip(Str(jobs[idx].orgu))
            current_orgu == Strip(loom_orgu)
            job_sup == Strip(Str(jobs[idx].sup))
            current_sup == Strip(loom_sup)
            same == [ok |-> FALSE, remove_row |-> FALSE, jobs |-> jobs, idx |-> idx]
        IN IF idx = 0 THEN same
           ELSE IF HasRemark(jobs[idx].note)
           THEN [ok |-> TRUE, remove_row |-> FALSE, jobs |-> jobs, idx |-> idx]
           ELSE IF job_orgu # <<>> /\ current_orgu # <<>>
                   /\ ~OrguCompatible(job_orgu, current_orgu)
           THEN same
           ELSE IF job_sup # <<>> /\ current_sup # <<>>
                   /\ ~SelvedgeCompatibleAuto(job_sup, current_sup)
           THEN same
           ELSE [ok |-> TRUE, remove_row |-> TRUE, jobs |-> SetTz(jobs, idx, loom_no),
                 idx |-> idx])

\* A faulty _assign_first_job_auto that leaves the weave check out.
AssignFirstJobAuto_NoOrguCheck(jobs, key, category, loom_no, loom_sup, loom_orgu) ==
    Bind(FirstJob(jobs, key, category), LAMBDA idx :
        LET job_orgu == Strip(Str(jobs[idx].orgu))
            current_orgu == Strip(loom_orgu)
            job_sup == Strip(Str(jobs[idx].sup))
            current_sup == Strip(loom_sup)
            same == [ok |-> FALSE, remove_row |-> FALSE, jobs |-> jobs, idx |-> idx]
        IN IF idx = 0 THEN same
           ELSE IF HasRemark(jobs[idx].note)
           THEN [ok |-> TRUE, remove_row |-> FALSE, jobs |-> SetTz(jobs, idx, Atla), idx |-> idx]
           ELSE IF job_sup # <<>> /\ current_sup # <<>>
                   /\ ~SelvedgeCompatibleAuto(job_sup, current_sup)
           THEN same
           ELSE [ok |-> TRUE, remove_row |-> TRUE, jobs |-> SetTz(jobs, idx, loom_no),
                 idx |-> idx])

\* A faulty _assign_first_job_auto that reports a skipped job as assigned
\* (remove_row True), so that the caller counts it.
AssignFirstJobAuto_SkipCounts(jobs, key, category, loom_no, loom_sup, loom_orgu) ==
    Bind(FirstJob(jobs, key, category), LAMBDA idx :
        LET job_orgu == Strip(Str(jobs[idx].orgu))
            current_orgu == Strip(loom_orgu)
            job_sup == Strip(Str(jobs[idx].sup))
            current_sup == Strip(loom_sup)
            same == [ok |-> FALSE, remove_row |-> FALSE, jobs |-> jobs, idx |-> idx]
        IN IF idx = 0 THEN same
           ELSE IF HasRemark(jobs[idx].note)
           THEN [ok |-> TRUE, remove_row |-> TRUE, jobs |-> SetTz(jobs, idx, Atla), idx |-> idx]
           ELSE IF job_orgu # <<>> /\ current_orgu # <<>>
                   /\ ~OrguCompatible(job_orgu, current_orgu)
           THEN same
           ELSE IF job_sup # <<>> /\ current_sup # <<>>
                   /\ ~SelvedgeCompatibleAuto(job_sup, current_sup)
           THEN same
           ELSE [ok |-> TRUE, remove_row |-> TRUE, jobs |-> SetTz(jobs, idx, loom_no),
                 idx |-> idx])

\* _assign_first_job_auto: (ok, remove_row), the job table it leaves and the
\* row it picked.  The ATKI test after the note test selects no other
\* outcome: a note that matches it is a non-empty note and is skipped before.
AssignFirstJobAuto(jobs, key, category, loom_no, loom_sup, loom_orgu) ==
    Bind(FirstJob(jobs, key, category), LAMBDA idx :
        LET job_orgu == Strip(Str(jobs[idx].orgu))
            current_orgu == Strip(loom_orgu)
            job_sup == Strip(Str(jobs[idx].sup))
            current_sup == Strip(loom_sup)
            same == [ok |-> FALSE, remove_row |-> FALSE, jobs |-> jobs, idx |-> idx]
        IN IF idx = 0 THEN same
           ELSE IF HasRemark(jobs[idx].note)
           THEN [ok |-> TRUE, remove_row |-> FALSE, jobs |-> SetTz(jobs, idx, Atla), idx |-> idx]
           ELSE IF job_orgu # <<>> /\ current_orgu # <<>>
                   /\ ~OrguCompatible(job_orgu, current_orgu)
           THEN same
           ELSE IF job_sup # <<>> /\ current_sup # <<>>
                   /\ ~SelvedgeCompatibleAuto(job_sup, current_sup)
           THEN same
           ELSE [ok |-> TRUE, remove_row |-> TRUE, jobs |-> SetTz(jobs, idx, loom_no),
                 idx |-> idx])

\* The loom list _auto_plan_for_group reads from the two tables: Bos first.
AutoLoomList(free, soon) ==
    Bind(FilterRows(free \o soon, LAMBDA r :
             /\ Strip(r.Tezgah) # <<>>
             /\ Lower(Strip(r.Tezgah)) \notin {<<"n", "a", "n">>, <<"n", "o", "n", "e">>}),
         LAMBDA kept :
        [k \in 1..Len(kept) |->
            [Tezgah |-> Strip(kept[k].Tezgah), SusKenar |-> Strip(kept[k].sup),
             Orgu |-> Strip(kept[k].orgu)]])

\* A faulty walk over the loom list that does not look at used_looms.
RECURSIVE WalkLooms_IgnoreUsed(_, _, _, _, _)
WalkLooms_IgnoreUsed(jobs, key, category, ls, used) ==
    IF ls = <<>>
    THEN [ok |-> FALSE, remove_row |-> FALSE, jobs |-> jobs, idx |-> 0, loom_no |-> <<>>]
    ELSE Bind(AssignFirstJobAuto(jobs, key, category, Head(ls).Tezgah,
                                 Head(ls).SusKenar, Head(ls).Orgu), LAMBDA r :
            IF r.ok
            THEN [ok |-> TRUE, remove_row |-> r.remove_row, jobs |-> r.jobs,
                  idx |-> r.idx, loom_no |-> Head(ls).Tezgah]
            ELSE WalkLooms_IgnoreUsed(jobs, key, category, Tail(ls), used))

\* A faulty loop over the loom list that gives up at the first unused
\* machine the job does not fit.
RECURSIVE WalkLooms_StopAtFirstMiss(_, _, _, _, _)
WalkLooms_StopAtFirstMiss(jobs, key, category, ls, used) ==
    IF ls = <<>>
    THEN [ok |-> FALSE, remove_row |-> FALSE, jobs |-> jobs, idx |-> 0, loom_no |-> <<>>]
    ELSE IF Head(ls).Tezgah \in used
    THEN WalkLooms_StopAtFirstMiss(jobs, key, category, Tail(ls), used)
    ELSE Bind(AssignFirstJobAuto(jobs, key, category, Head(ls).Tezgah,
                                 Head(ls).SusKenar, Head(ls).Orgu), LAMBDA r :
            [ok |-> r.ok, remove_row |-> r.remove_row, jobs |-> r.jobs,
             idx |-> IF r.ok THEN r.idx ELSE 0,
             loom_no |-> IF r.ok THEN Head(ls).Tezgah ELSE <<>>])

\* The for loop of _auto_plan_for_group over the loom list: the first call
\* of _assign_first_job_auto that reports progress ends it.
RECURSIVE WalkLooms(_, _, _, _, _)
WalkLooms(jobs, key, category, ls, used) ==
    IF ls = <<>>
    THEN [ok |-> FALSE, remove_row |-> FALSE, jobs |-> jobs, idx |-> 0, loom_no |-> <<>>]
    ELSE IF Head(ls).Tezgah \in used
    THEN WalkLooms(jobs, key, category, Tail(ls), used)
    ELSE Bind(AssignFirstJobAuto(jobs, key, category, Head(ls).Tezgah,
                                 Head(ls).SusKenar, Head(ls).Orgu), LAMBDA r :
            IF r.ok
            THEN [ok |-> TRUE, remove_row |-> r.remove_row, jobs |-> r.jobs,
                  idx |-> r.idx, loom_no |-> Head(ls).Tezgah]
            ELSE WalkLooms(jobs, key, category, Tail(ls), used))

\* A faulty _assign_first_job that marks the job skipped when the operator
\* chooses a different machine.
AssignFirstJob_OtherSkips(jobs, key, category, loom_no, loom_sup, loom_orgu, note_ans, orgu_ans, sup_ans) ==
    LET idx == FirstJob(jobs, key, category)
        job_orgu == Strip(Str(jobs[idx].orgu))
        current_orgu == Strip(loom_orgu)
        job_sup == Strip(Str(jobs[idx].sup))
        current_sup == Strip(loom_sup)
        ask_note == HasRemark(jobs[idx].note)
        ask_orgu == job_orgu # <<>> /\ current_orgu # <<>>
                    /\ ~OrguCompatible(job_orgu, current_orgu)
        ask_sup == job_sup # <<>> /\ current_sup # <<>> /\ job_sup # current_sup
        res(ok, rm, jb, asked) ==
            [ok |-> ok, remove_row |-> rm, jobs |-> jb, idx |-> idx, asked |-> asked]
        skipped == SetTz(jobs, idx, Atla)
    IN IF idx = 0 THEN res(FALSE, FALSE, jobs, {})
       ELSE IF ask_note /\ note_ans = "no" THEN res(TRUE, FALSE, skipped, {"note"})
       ELSE LET a1 == IF ask_note THEN {"note"} ELSE {}
            IN IF ask_orgu /\ orgu_ans = "no"
               THEN res(TRUE, FALSE, skipped, a1 \cup {"orgu"})
               ELSE IF ask_orgu /\ orgu_ans = "other"
               THEN res(FALSE, FALSE, skipped, a1 \cup {"orgu"})
               ELSE LET a2 == IF ask_orgu THEN a1 \cup {"orgu"} ELSE a1
                    IN IF ask_sup /\ sup_ans = "no"
                       THEN res(TRUE, FALSE, skipped, a2 \cup {"sup"})
                       ELSE IF ask_sup /\ sup_ans = "other"
                       THEN res(FALSE, FALSE, skipped, a2 \cup {"sup"})
                       ELSE res(TRUE, TRUE, SetTz(jobs, idx, loom_no),
                                IF ask_sup THEN a2 \cup {"sup"} ELSE a2)

\* _assign_first_job with the remark question moved behind the weave and the
\* selvedge question.
AssignFirstJob_NoteLast(jobs, key, category, loom_no, loom_sup, loom_orgu, note_ans, orgu_ans, sup_ans) ==
    LET idx == FirstJob(jobs, key, category)
        job_orgu == Strip(Str(jobs[idx].orgu))
        current_orgu == Strip(loom_orgu)
        job_sup == Strip(Str(jobs[idx].sup))
        current_sup == Strip(loom_sup)
        ask_note == HasRemark(jobs[idx].note)
        ask_orgu == job_orgu # <<>> /\ current_orgu # <<>>
                    /\ ~OrguCompatible(job_orgu, current_orgu)
        ask_sup == job_sup # <<>> /\ current_sup # <<>> /\ job_sup # current_sup
        res(ok, rm, jb, asked) ==
            [ok |-> ok, remove_row |-> rm, jobs |-> jb, idx |-> idx, asked |-> asked]
        skipped == SetTz(jobs, idx, Atla)
    IN IF idx = 0 THEN res(FALSE, FALSE, jobs, {})
       ELSE IF ask_orgu /\ orgu_ans = "no" THEN res(TRUE, FALSE, skipped, {"orgu"})
       ELSE IF ask_orgu /\ orgu_ans = "other" THEN res(FALSE, FALSE, jobs, {"orgu"})
       ELSE LET a1 == IF ask_orgu THEN {"orgu"} ELSE {}
            IN IF ask_sup /\ sup_ans = "no"
               THEN res(TRUE, FALSE, skipped, a1 \cup {"sup"})
               ELSE IF ask_sup /\ sup_ans = "other"
               THEN res(FALSE, FALSE, jobs, a1 \cup {"sup"})
               ELSE LET a2 == IF ask_sup THEN a1 \cup {"sup"} ELSE a1
                    IN IF ask_note /\ note_ans = "no"
                       THEN res(TRUE, FALSE, skipped, a2 \cup {"note"})
                       ELSE res(TRUE, TRUE, SetTz(jobs, idx, loom_no),
                                IF ask_note THEN a2 \cup {"note"} ELSE a2)

\* _assign_first_job: the interactive allocator for the machine the operator
\* double-clicked.  note_ans answers the note question ("yes"/"no"), orgu_ans
\* and sup_ans the two warning boxes ("yes"/"no"/"other"); asked is the set of
\* questions that were put.
AssignFirstJob(jobs, key, category, loom_no, loom_sup, loom_orgu, note_ans, orgu_ans, sup_ans) ==
    LET idx == FirstJob(jobs, key, category)
        job_orgu == Strip(Str(jobs[idx].orgu))
        current_orgu == Strip(loom_orgu)
        job_sup == Strip(Str(jobs[idx].sup))
        current_sup == Strip(loom_sup)
        ask_note == HasRemark(jobs[idx].note)
        ask_orgu == job_orgu # <<>> /\ current_orgu # <<>>
                    /\ ~OrguCompatible(job_orgu, current_orgu)
        ask_sup == job_sup # <<>> /\ current_sup # <<>> /\ job_sup # current_sup
        res(ok, rm, jb, asked) ==
            [ok |-> ok, remove_row |-> rm, jobs |-> jb, idx |-> idx, asked |-> asked]
        skipped == SetTz(jobs, idx, Atla)
    IN IF idx = 0 THEN res(FALSE, FALSE, jobs, {})
       ELSE IF ask_note /\ note_ans = "no" THEN res(TRUE, FALSE, skipped, {"note"})
       ELSE LET a1 == IF ask_note THEN {"note"} ELSE {}
            IN IF ask_orgu /\ orgu_ans = "no"
               THEN res(TRUE, FALSE, skipped, a1 \cup {"orgu"})
               ELSE IF ask_orgu /\ orgu_ans = "other"
               THEN res(FALSE, FALSE, jobs, a1 \cup {"orgu"})
               ELSE LET a2 == IF ask_orgu THEN a1 \cup {"orgu"} ELSE a1
                    IN IF ask_sup /\ sup_ans = "no"
                       THEN res(TRUE, FALSE, skipped, a2 \cup {"sup"})
                       ELSE IF ask_sup /\ sup_ans = "other"
                       THEN res(FALSE, FALSE, jobs, a2 \cup {"sup"})
                       ELSE res(TRUE, TRUE, SetTz(jobs, idx, loom_no),
                                IF ask_sup THEN a2 \cup {"sup"} ELSE a2)

\* df_view.drop(index=row).reset_index(drop=True): the row whose index LABEL
\* is row goes, and the labels are renumbered.
DropIndex(view, row) ==
    LET kept == FilterRows(view, LAMBDA r : r.idx # row)
    IN [k \in 1..Len(kept) |-> [kept[k] EXCEPT !.idx = k - 1]]

(***************************************************************************)
(* The candidate builder of the machine picker                             *)
(* (app/team_planning_flow.py, TezgahPicker._build_and_fill).              *)
(***************************************************************************)
\* _extract_numbers_preserve_decimal: the numbers of a text, "," read as ".",
\* a fraction of zeros dropped.
RECURSIVE ExtractNumbersPreserveDecimal(_)
ExtractNumbersPreserveDecimal(s) ==
    IF s = <<>> THEN <<>>
    ELSE IF Head(s) \notin Digit THEN ExtractNumbersPreserveDecimal(Tail(s))
    ELSE LET ip == DigitPrefix(s)
             rest == SubSeq(s, Len(ip) + 1, Len(s))
             fp == IF rest # <<>> /\ Head(rest) \in {".", ","}
                   THEN DigitPrefix(Tail(rest)) ELSE <<>>
             n == Len(ip) + (IF fp # <<>> THEN Len(fp) + 1 ELSE 0)
             tok == IF \A i \in 1..Len(fp) : fp[i] = "0" THEN ip
                    ELSE ip \o <<".">> \o fp
         IN <<tok>> \o ExtractNumbersPreserveDecimal(SubSeq(s, n + 1, Len(s)))

RECURSIVE JoinSlash(_)
JoinSlash(toks) ==
    IF toks = <<>> THEN <<>>
    ELSE IF Len(toks) = 1 THEN toks[1]
    ELSE toks[1] \o <<"/">> \o JoinSlash(Tail(toks))

\* _norm_tarak_generic: the first three numbers of the label joined by "/".
NormTarakGeneric(s) ==
    LET parts == ExtractNumbersPreserveDecimal(Str(s))
    IN IF s = NaN THEN <<>>
       ELSE IF parts = <<>> THEN Strip(Str(s))
       ELSE JoinSlash(SubSeq(parts, 1, Min(3, Len(parts))))

\* _loom_no_as_int
LoomNoAsInt(v) ==
    IF FirstDigitRun(Str(v)) = <<>> THEN None ELSE ToInt(FirstDigitRun(Str(v)))

\* _loom_digits
LoomDigits(v) == FirstDigitRun(Str(v))

\* _loom_allowed
LoomAllowed(loom_no, grp_type) ==
    IF loom_no = None THEN FALSE
    ELSE IF loom_no \in NEVER THEN FALSE
    ELSE IF grp_type = "ham" THEN loom_no \in HAM_ALLOWED
    ELSE DENIM_ALLOWED_RANGE[1] <= loom_no /\ loom_no <= DENIM_ALLOWED_RANGE[2]

\* TezgahPicker._jobs_total_for_tg: every job row of the group counts.
JobsTotalForTg(jobs, tg_norm) ==
    Cardinality({i \in 1..Len(jobs) : NormTarakGeneric(Str(jobs[i].label)) = tg_norm})

\* allowed_row of the picker.
PickerAllowedRow(x, grp_target, exclude) ==
    /\ LoomNoAsInt(x.tz) # None
    /\ LoomAllowed(LoomNoAsInt(x.tz), grp_target)
    /\ LoomDigits(x.tz) \notin exclude

\* TezgahPicker._active_looms_for_tg
ActiveLoomsForTg(machines, tg_norm, grp_target, exclude) ==
    Cardinality({i \in 1..Len(machines) :
                    /\ NormTarakGeneric(Str(machines[i].label)) = tg_norm
                    /\ LoomAllowed(LoomNoAsInt(machines[i].tz), grp_target)
                    /\ LoomDigits(machines[i].tz) \notin exclude})

\* A faulty mask_viable that keeps open machines only.
Viable_OpenOnly(r, thr) == r.open = TRUE

\* mask_viable: open, or closing within the threshold.
Viable(r, thr) == r.open = TRUE \/ (r.kalan # None /\ r.kalan <= thr)

OpenPrio(r) == IF r.open = TRUE THEN 0 ELSE 1
KalanOk(r, thr) == IF r.kalan # None /\ r.kalan <= thr THEN 0 ELSE 1
LoomNoKey(r) == IF LoomNoAsInt(r.tz) \in {None, 0} THEN 99999 ELSE LoomNoAsInt(r.tz)

\* r of _build_and_fill: the rows of the running table that pass allowed_row,
\* each with its _TG_norm column.
PickerRows(machines, grp_target, exclude) ==
    FilterRows([k \in 1..Len(machines) |->
                   [row |-> machines[k],
                    tg |-> NormTarakGeneric(Str(machines[k].label))]],
               LAMBDA x : PickerAllowedRow(x.row, grp_target, exclude))

\* tg_metrics: (jobs_total, looms_act) of every group of r, in groupby order.
TgMetrics(jobs, machines, r, grp_target, exclude) ==
    Bind(SortedTexts({Strip(r[i].tg) : i \in 1..Len(r)} \ {<<>>}), LAMBDA tgs :
        [k \in 1..Len(tgs) |->
            [tg |-> tgs[k],
             j |-> JobsTotalForTg(jobs, tgs[k]),
             a |-> ActiveLoomsForTg(machines, tgs[k], grp_target, exclude)]])

Tagged(rows, b) ==
    [k \in 1..Len(rows) |-> [row |-> rows[k].row, tg |-> rows[k].tg, bucket |-> b]]

\* A faulty bucket 1 that takes every viable machine of a group with more
\* machines than jobs.
RECURSIVE Bucket1_TakeAll(_, _, _)
Bucket1_TakeAll(tg_metrics, r, thr) ==
    IF tg_metrics = <<>> THEN <<>>
    ELSE Bind(Head(tg_metrics), LAMBDA m :
         Bind(FilterRows(r, LAMBDA x : x.tg = m.tg /\ Viable(x.row, thr)), LAMBDA ok :
            Tagged(IF m.j > 0 /\ m.a > m.j THEN ok ELSE <<>>, 1)
            \o Bucket1_TakeAll(Tail(tg_metrics), r, thr)))

\* Bucket 1: for each group with jobs and more machines than jobs, the
\* first (machines - jobs) viable machines in (open, kalan, number) order.
RECURSIVE Bucket1(_, _, _)
Bucket1(tg_metrics, r, thr) ==
    IF tg_metrics = <<>> THEN <<>>
    ELSE Bind(Head(tg_metrics), LAMBDA m :
         Bind(SortRowsBy(
                  FilterRows(r, LAMBDA x : x.tg = m.tg),
                  LAMBDA x : <<OpenPrio(x.row), KalanOk(x.row, thr), LoomNoKey(x.row)>>),
              LAMBDA sub_tg :
         Bind(FilterRows(sub_tg, LAMBDA x : Viable(x.row, thr)), LAMBDA ok :
         Bind(IF m.j > 0 /\ m.a > m.j THEN SubSeq(ok, 1, Min(m.a - m.j, Len(ok)))
              ELSE <<>>,
              LAMBDA picked :
            Tagged(picked, 1) \o Bucket1(Tail(tg_metrics), r, thr)))))

\* _build_and_fill up to the viable filter on the concatenated parts: bucket
\* 0 (machines of groups without jobs), bucket 1 (surplus machines), and,
\* only when both are empty, bucket 2 (the target group's own machines).
PickerParts(jobs, machines, target_tg_norm, grp_target, exclude, thr) ==
    Bind(PickerRows(machines, grp_target, exclude), LAMBDA r :
    Bind(TgMetrics(jobs, machines, r, grp_target, exclude), LAMBDA tg_metrics :
    Bind({tg_metrics[k].tg : k \in {n \in 1..Len(tg_metrics) : tg_metrics[n].j = 0}},
         LAMBDA b0 :
    Bind(Tagged(FilterRows(r, LAMBDA x : x.tg \in b0), 0)
         \o Bucket1(tg_metrics, r, thr),
         LAMBDA parts :
    Bind(IF parts # <<>> THEN parts
         ELSE Tagged(SortRowsBy(
                         FilterRows(r, LAMBDA x : /\ x.tg = target_tg_norm
                                                  /\ Viable(x.row, thr)),
                         LAMBDA x : <<KalanOk(x.row, thr), LoomNoKey(x.row)>>),
                     2),
         LAMBDA cand :
        FilterRows(cand, LAMBDA c : Viable(c.row, thr)))))))

\* A faulty sort that leaves the bucket out of the key.
PickerSort_NoBucket(cand, thr) ==
    SortRowsBy(cand, LAMBDA c : <<OpenPrio(c.row), KalanOk(c.row, thr), LoomNoKey(c.row)>>)

\* The sort order of the candidate builder: bucket, open first, kalan, number.
PickerSort(cand, thr) ==
    SortRowsBy(cand, LAMBDA c : <<c.bucket, OpenPrio(c.row), KalanOk(c.row, thr),
                                  LoomNoKey(c.row)>>)

\* A faulty _build_and_fill that leaves the rows of the target group in.
PickerCandidates_KeepOwn(jobs, machines, target_tg_norm, grp_target, exclude, thr) ==
    PickerSort(PickerParts(jobs, machines, target_tg_norm, grp_target, exclude, thr),
               thr)

\* _build_and_fill from the viable filter on: the rows of the target group
\* itself are taken out, the rest is sorted.
PickerCandidates(jobs, machines, target_tg_norm, grp_target, exclude, thr) ==
    PickerSort(FilterRows(PickerParts(jobs, machines, target_tg_norm, grp_target,
                                      exclude, thr),
                          LAMBDA c : Strip(c.tg) # target_tg_norm),
               thr)

\* The Tezgah column of the picker's table.
PickerView(cand0) ==
    Bind(cand0, LAMBDA cand : [k \in 1..Len(cand) |-> Str(cand[k].row.tz)])

\* ManualTezgahPicker._build_view: the Tezgah column, every machine of the
\* running table by number.
ManualBuildView(machines) ==
    LET r == SortRowsBy(machines, LAMBDA x : <<LoomNoKey(x)>>)
    IN [k \in 1..Len(r) |-> Strip(Str(r[k].tz))]

\* allowed_row of the team planning tab.
FlowAllowedRow(x, grp_type, blk, dmy) ==
    /\ LoomAllowed(LoomNoAsInt(x.tz), grp_type)
    /\ LoomDigits(x.tz) \notin blk
    /\ LoomDigits(x.tz) \notin dmy

\* TeamPlanningFlowTab._open_looms_count
OpenLoomsCount(machines, target_tarak_norm, grp_type, blk, dmy) ==
    Cardinality({i \in 1..Len(machines) :
                    /\ NormTarakGeneric(Str(machines[i].label)) = target_tarak_norm
                    /\ FlowAllowedRow(machines[i], grp_type, blk, dmy)
                    /\ machines[i].open = TRUE})

\* TeamPlanningFlowTab._soon_looms_count
SoonLoomsCount(machines, target_tarak_norm, grp_type, blk, dmy, thr) ==
    Cardinality({i \in 1..Len(machines) :
                    /\ NormTarakGeneric(Str(machines[i].label)) = target_tarak_norm
                    /\ FlowAllowedRow(machines[i], grp_type, blk, dmy)
                    /\ machines[i].kalan # None
                    /\ machines[i].kalan <= thr
                    /\ machines[i].open # TRUE})

(***************************************************************************)
(* State.                                                                  *)
(***************************************************************************)
VARIABLES
    df_jobs,               \* the job table (Dinamik), shared with the main window
    df_looms,              \* the machine table (Running Orders)
    blocked_looms,         \* _blocked_looms: machines under maintenance
    dummy_looms,           \* _dummy_looms: machines shown as empty
    plan_threshold_m,      \* the "about to open" threshold
    current_category,      \* _current_category
    current_group_label,   \* _current_group_label
    model_free,            \* model_free._df: the table of open machines
    model_soon,            \* model_soon._df: the table of machines about to open
    pc,                    \* "idle", or where auto_plan_all_groups stands
    queue,                 \* the (label, category) pairs auto_plan_all_groups has left
    looms,                 \* _auto_plan_for_group: looms
    used_looms,            \* _auto_plan_for_group: used_looms
    assigned_count,        \* _auto_plan_for_group: assigned_count
    total_assigned,        \* auto_plan_all_groups: total_assigned
    iters,                 \* passes of the while loop in the current group call
    tz0,                   \* the Tezgah Numarasi column when the group call began
    streak,                \* 1 during a run started right after another run ended
    ev,                    \* what the last step did
    call,                  \* the last application of a rule or list builder
    team_group,            \* team planning tab: the group selected in lst_groups
    assignments,           \* _assignments: per job, the machine recorded for it
    flow_used_looms,       \* _used_looms: (group, category, machine) given as knot
    used_looms_global,     \* _used_looms_global
    ordered_looms_cache,   \* _ordered_looms_cache: ((group, category), list)
    flow_threshold_m       \* team planning tab: flow_threshold_m

vars == <<df_jobs, df_looms, blocked_looms, dummy_looms, plan_threshold_m,
          current_category, current_group_label, model_free, model_soon, pc, queue,
          looms, used_looms, assigned_count, total_assigned, iters, tz0, streak, ev,
          call, team_group, assignments, flow_used_looms, used_looms_global,
          ordered_looms_cache, flow_threshold_m>>

tables == <<df_looms, blocked_looms, dummy_looms>>
locals == <<looms, used_looms, assigned_count, iters, tz0>>
\* What the planning dialog never touches.
aside == <<call, team_group, assignments, flow_used_looms, used_looms_global,
           ordered_looms_cache, flow_threshold_m>>

\* No rule has been applied.
NoCall == [fn |-> "none"]

\* flow_threshold_m as the settings give it when nothing was stored.
FlowThresholdM == 300

\* TeamPlanningFlowTab.__init__: no group selected, nothing recorded.
NoGroup == [tg |-> <<>>, grp_type |-> "none"]
NoTeam ==
    /\ team_group = NoGroup
    /\ assignments = <<>>
    /\ flow_used_looms = {}
    /\ used_looms_global = {}
    /\ ordered_looms_cache = {}
    /\ flow_threshold_m = FlowThresholdM

Event(op, job, pre, loom, n, asked) ==
    [op |-> op, job |-> job, pre |-> pre, loom |-> loom, n |-> n, asked |-> asked]

TzColumn(jobs) == [i \in 1..Len(jobs) |-> jobs[i].tz]

\* The passes counted by iters stop at this value.
IterCap == MaxJobs + 2

(***************************************************************************)
(* PlanningDialog.__init__: the groups are listed and the first DENIM      *)
(* group, else the first HAM group, is selected.                           *)
(***************************************************************************)
DefaultLabel(jobs) ==
    IF LoadGroups(jobs, "DENIM") # <<>> THEN LoadGroups(jobs, "DENIM")[1]
    ELSE IF LoadGroups(jobs, "HAM") # <<>> THEN LoadGroups(jobs, "HAM")[1]
    ELSE NoLabel

DefaultCategory(jobs) ==
    IF LoadGroups(jobs, "DENIM") # <<>> THEN "DENIM"
    ELSE IF LoadGroups(jobs, "HAM") # <<>> THEN "HAM"
    ELSE "NONE"

Init ==
    /\ df_jobs \in JobTables
    /\ df_looms \in LoomTables
    /\ blocked_looms = {}
    /\ dummy_looms = {}
    /\ plan_threshold_m = 100
    /\ current_category = DefaultCategory(df_jobs)
    /\ current_group_label = DefaultLabel(df_jobs)
    /\ LET v == LoadLooms(df_jobs, df_looms, CurrentKey(df_jobs, DefaultLabel(df_jobs)),
                          DefaultCategory(df_jobs), 100, blocked_looms, dummy_looms)
       IN model_free = v.free /\ model_soon = v.soon
    /\ pc = "idle"
    /\ queue = <<>>
    /\ looms = <<>>
    /\ used_looms = {}
    /\ assigned_count = 0
    /\ total_assigned = 0
    /\ iters = 0
    /\ tz0 = <<>>
    /\ streak = 0
    /\ ev = Event("view", 0, <<>>, <<>>, 0, {})
    /\ call = NoCall
    /\ NoTeam

(***************************************************************************)
(* Interactive operations (the dialog is idle between them).               *)
(***************************************************************************)
\* PlanningDialog.__init__ on the shared tables: open_planlama and
\* run_ai_planning build a new dialog, which selects the default group.
OpenDialog ==
    /\ pc = "idle"
    /\ current_category' = DefaultCategory(df_jobs)
    /\ current_group_label' = DefaultLabel(df_jobs)
    /\ LET v == LoadLooms(df_jobs, df_looms, CurrentKey(df_jobs, DefaultLabel(df_jobs)),
                          DefaultCategory(df_jobs), plan_threshold_m,
                          blocked_looms, dummy_looms)
       IN model_free' = v.free /\ model_soon' = v.soon
    /\ ev' = Event("view", 0, <<>>, <<>>, 0, {})
    /\ UNCHANGED aside
    /\ UNCHANGED <<df_jobs, tables, plan_threshold_m, pc, queue, locals,
                   total_assigned, streak>>

\* _on_group_clicked
OnGroupClicked ==
    /\ pc = "idle"
    /\ \E category \in {"DENIM", "HAM"} :
         \E k \in 1..Len(LoadGroups(df_jobs, category)) :
            LET label == LoadGroups(df_jobs, category)[k]
                v == LoadLooms(df_jobs, df_looms, CurrentKey(df_jobs, label), category,
                               plan_threshold_m, blocked_looms, dummy_looms)
            IN /\ current_category' = category
               /\ current_group_label' = label
               /\ model_free' = v.free
               /\ model_soon' = v.soon
    /\ ev' = Event("view", 0, <<>>, <<>>, 0, {})
    /\ UNCHANGED aside
    /\ UNCHANGED <<df_jobs, tables, plan_threshold_m, pc, queue, locals,
                   total_assigned, streak>>

\* _on_threshold_changed
OnThresholdChanged ==
    /\ pc = "idle"
    /\ \E v \in Thresholds \ {plan_threshold_m} :
         /\ plan_threshold_m' = v
         /\ IF current_group_label # NoLabel
            THEN LET w == LoadLooms(df_jobs, df_looms,
                                    CurrentKey(df_jobs, current_group_label),
                                    current_category, v, blocked_looms, dummy_looms)
                 IN model_free' = w.free /\ model_soon' = w.soon
            ELSE UNCHANGED <<model_free, model_soon>>
    /\ ev' = Event("view", 0, <<>>, <<>>, 0, {})
    /\ UNCHANGED aside
    /\ UNCHANGED <<df_jobs, tables, current_category, current_group_label, pc, queue,
                   locals, total_assigned, streak>>

\* _on_skip_current
OnSkipCurrent ==
    /\ pc = "idle"
    /\ LET key == CurrentKey(df_jobs, current_group_label)
           idx == FirstJob(df_jobs, key, current_category)
       IN /\ key # <<>>
          /\ idx # 0
          /\ df_jobs' = SetTz(df_jobs, idx, Atla)
          /\ ev' = Event("skip_current", idx, df_jobs[idx].tz, <<>>, 0, {})
    /\ UNCHANGED aside
    /\ UNCHANGED <<tables, plan_threshold_m, current_category, current_group_label,
                   model_free, model_soon, pc, queue, locals, total_assigned, streak>>

\* _assign_from_table: a double click on row pos of the Bos or Acilacak table.
AssignFromTable ==
    /\ pc = "idle"
    /\ \E source \in {"free", "soon"} :
         LET df_view == IF source = "free" THEN model_free ELSE model_soon
             key == CurrentKey(df_jobs, current_group_label)
         IN \E pos \in 1..Len(df_view) :
              \E note_ans \in {"yes", "no"}, orgu_ans, sup_ans \in {"yes", "no", "other"} :
                 LET loom_no == Strip(df_view[pos].Tezgah)
                     r == AssignFirstJob(df_jobs, key, current_category, loom_no,
                                         Strip(df_view[pos].sup), Strip(df_view[pos].orgu),
                                         note_ans, orgu_ans, sup_ans)
                     new_df == IF r.ok /\ r.remove_row THEN DropIndex(df_view, pos - 1)
                               ELSE df_view
                 IN /\ key # <<>>
                    /\ r.idx # 0
                    /\ note_ans # "yes" => "note" \in r.asked
                    /\ orgu_ans # "yes" => "orgu" \in r.asked
                    /\ sup_ans # "yes" => "sup" \in r.asked
                    /\ df_jobs' = r.jobs
                    /\ model_free' = IF source = "free" THEN new_df ELSE model_free
                    /\ model_soon' = IF source = "soon" THEN new_df ELSE model_soon
                    /\ ev' = Event(IF ~r.ok THEN "manual_other"
                                   ELSE IF r.remove_row THEN "manual_assign"
                                   ELSE "manual_skip",
                                   r.idx, df_jobs[r.idx].tz, loom_no, pos, r.asked)
    /\ UNCHANGED aside
    /\ UNCHANGED <<tables, plan_threshold_m, current_category, current_group_label,
                   pc, queue, locals, total_assigned, streak>>

(***************************************************************************)
(* The automatic run.                                                      *)
(***************************************************************************)
\* auto_plan_all_groups up to its first group: the groups are listed again,
\* DENIM first, then HAM.
AutoStart ==
    /\ pc = "idle"
    /\ pc' = "groups"
    /\ queue' = [k \in 1..Len(LoadGroups(df_jobs, "DENIM")) |->
                    <<LoadGroups(df_jobs, "DENIM")[k], "DENIM">>]
                \o [k \in 1..Len(LoadGroups(df_jobs, "HAM")) |->
                    <<LoadGroups(df_jobs, "HAM")[k], "HAM">>]
    /\ total_assigned' = 0
    /\ streak' = IF ev.op = "auto_end" THEN 1 ELSE 0
    /\ ev' = Event("auto_start", 0, <<>>, <<>>, 0, {})
    /\ UNCHANGED aside
    /\ UNCHANGED <<df_jobs, tables, plan_threshold_m, current_category,
                   current_group_label, model_free, model_soon, locals>>

\* _auto_plan_for_group up to its while loop, for the next group of the run.
AutoGroupStart ==
    /\ pc = "groups"
    /\ queue # <<>>
    /\ \E label \in {Head(queue)[1]}, category \in {Head(queue)[2]} :
       \E key \in {CurrentKey(df_jobs, label)} :
       \E v \in {LoadLooms(df_jobs, df_looms, key, category, plan_threshold_m,
                            blocked_looms, dummy_looms)} :
       \E ls \in {AutoLoomList(v.free, v.soon)} :
          /\ current_category' = category
          /\ current_group_label' = label
          /\ tz0' = TzColumn(df_jobs)
          /\ used_looms' = {}
          /\ assigned_count' = 0
          /\ iters' = 0
          /\ IF key = <<>>
             THEN /\ UNCHANGED <<model_free, model_soon>>
                  /\ looms' = <<>>
                  /\ pc' = "groups"
                  /\ queue' = Tail(queue)
                  /\ ev' = Event("auto_nokey", 0, <<>>, <<>>, 0, {})
             ELSE /\ model_free' = v.free
                  /\ model_soon' = v.soon
                  /\ looms' = ls
                  /\ IF ls = <<>>
                     THEN /\ pc' = "groups"
                          /\ queue' = Tail(queue)
                          /\ ev' = Event("auto_nolooms", 0, <<>>, <<>>, 0, {})
                     ELSE /\ pc' = "loop"
                          /\ queue' = queue
                          /\ ev' = Event("auto_group", 0, <<>>, <<>>, 0, {})
    /\ UNCHANGED aside
    /\ UNCHANGED <<df_jobs, tables, plan_threshold_m, total_assigned, streak>>

\* One pass of the while loop of _auto_plan_for_group; a pass that breaks
\* returns assigned_count to auto_plan_all_groups, which adds it up.
AutoIterate ==
    /\ pc = "loop"
    /\ \E key \in {CurrentKey(df_jobs, current_group_label)} :
       \E r \in {WalkLooms(df_jobs, key, current_category, looms, used_looms)} :
          /\ iters' = Min(iters + 1, IterCap)
          /\ IF CandidateRows(df_jobs, key, current_category) = {}
             THEN /\ pc' = "groups"
                  /\ queue' = Tail(queue)
                  /\ total_assigned' = total_assigned + assigned_count
                  /\ ev' = Event("auto_done", 0, <<>>, <<>>, assigned_count, {})
                  /\ UNCHANGED <<df_jobs, used_looms, assigned_count>>
             ELSE IF r.ok
             THEN /\ df_jobs' = r.jobs
                  /\ used_looms' = IF r.remove_row THEN used_looms \cup {r.loom_no}
                                   ELSE used_looms
                  /\ assigned_count' = IF r.remove_row THEN assigned_count + 1
                                       ELSE assigned_count
                  /\ ev' = Event(IF r.remove_row THEN "auto_assign" ELSE "auto_skip",
                                 r.idx, df_jobs[r.idx].tz,
                                 IF r.remove_row THEN r.loom_no ELSE <<>>, 0, {})
                  /\ UNCHANGED <<pc, queue, total_assigned>>
             ELSE /\ pc' = "groups"
                  /\ queue' = Tail(queue)
                  /\ total_assigned' = total_assigned + assigned_count
                  /\ ev' = Event("auto_halt", 0, <<>>, <<>>, assigned_count, {})
                  /\ UNCHANGED <<df_jobs, used_looms, assigned_count>>
    /\ UNCHANGED aside
    /\ UNCHANGED <<tables, plan_threshold_m, current_category, current_group_label,
                   model_free, model_soon, looms, tz0, streak>>

\* auto_plan_all_groups returns total_assigned.
AutoReturn ==
    /\ pc = "groups"
    /\ queue = <<>>
    /\ pc' = "idle"
    /\ looms' = <<>>
    /\ used_looms' = {}
    /\ assigned_count' = 0
    /\ iters' = 0
    /\ tz0' = <<>>
    /\ total_assigned' = 0
    /\ streak' = 0
    /\ ev' = Event("auto_end", 0, <<>>, <<>>, total_assigned, {})
    /\ UNCHANGED aside
    /\ UNCHANGED <<df_jobs, tables, plan_threshold_m, current_category,
                   current_group_label, model_free, model_soon, queue>>

AutoStep == AutoGroupStart \/ AutoIterate \/ AutoReturn

Next ==
    \/ OpenDialog
    \/ OnGroupClicked
    \/ OnThresholdChanged
    \/ OnSkipCurrent
    \/ AssignFromTable
    \/ AutoStart
    \/ AutoGroupStart
    \/ AutoIterate
    \/ AutoReturn

Spec == Init /\ [][Next]_vars

\* The run is synchronous code: once started, its next step is always taken.
LiveSpec == Spec /\ WF_vars(AutoStep)

(***************************************************************************)
(* The planning dialog on job lists whose earliest job carries a remark    *)
(* together with a weave code and a selvedge.                              *)
(***************************************************************************)
\* The job lists that start with the job naming a weave and a selvedge, that
\* job carrying a NOTLAR text as well.
RemarkJobTables ==
    {[t EXCEPT ![1].note = JobPool[1].note] : t \in {u \in JobTables : u[1] = JobPool[2]}}

RemarkInit ==
    /\ df_jobs \in RemarkJobTables
    /\ df_looms \in LoomTables
    /\ blocked_looms = {}
    /\ dummy_looms = {}
    /\ plan_threshold_m = 100
    /\ current_category = DefaultCategory(df_jobs)
    /\ current_group_label = DefaultLabel(df_jobs)
    /\ LET v == LoadLooms(df_jobs, df_looms, CurrentKey(df_jobs, DefaultLabel(df_jobs)),
                          DefaultCategory(df_jobs), 100, blocked_looms, dummy_looms)
       IN model_free = v.free /\ model_soon = v.soon
    /\ pc = "idle"
    /\ queue = <<>>
    /\ looms = <<>>
    /\ used_looms = {}
    /\ assigned_count = 0
    /\ total_assigned = 0
    /\ iters = 0
    /\ tz0 = <<>>
    /\ streak = 0
    /\ ev = Event("view", 0, <<>>, <<>>, 0, {})
    /\ call = NoCall
    /\ NoTeam

RemarkSpec == RemarkInit /\ [][Next]_vars

(***************************************************************************)
(* The planning dialog on a machine table that is not in number order:     *)
(* load_running_orders keeps the rows in the order of the sheet.           *)
(***************************************************************************)
UnsortedLooms ==
    << Loom(<<"2", "3", "0", "5">>, L20, TRUE, None, <<>>, <<>>),
       LoomPool[1] >>

OrderInit ==
    /\ df_jobs \in JobTables
    /\ df_looms = UnsortedLooms
    /\ blocked_looms = {}
    /\ dummy_looms = {}
    /\ plan_threshold_m = 100
    /\ current_category = DefaultCategory(df_jobs)
    /\ current_group_label = DefaultLabel(df_jobs)
    /\ LET v == LoadLooms(df_jobs, df_looms, CurrentKey(df_jobs, DefaultLabel(df_jobs)),
                          DefaultCategory(df_jobs), 100, blocked_looms, dummy_looms)
       IN model_free = v.free /\ model_soon = v.soon
    /\ pc = "idle"
    /\ queue = <<>>
    /\ looms = <<>>
    /\ used_looms = {}
    /\ assigned_count = 0
    /\ total_assigned = 0
    /\ iters = 0
    /\ tz0 = <<>>
    /\ streak = 0
    /\ ev = Event("view", 0, <<>>, <<>>, 0, {})
    /\ call = NoCall
    /\ NoTeam

OrderSpec == OrderInit /\ [][Next]_vars

(***************************************************************************)
(* The planning dialog built while the storage holds restricted machines:  *)
(* __init__ reads the two sets with _load_restricted_looms.                *)
(***************************************************************************)
\* What load_blocked_looms and load_dummy_looms may return: the LoomNo
\* column as texts, an entry without digits among them.
StoredBlocked == {<<<<"2", "3", "0", "1">>>>, <<<<"D">>, <<"2", "3", "0", "1">>>>}
StoredDummy == {<<>>, <<<<"2", "3", "0", "2">>>>, <<<<"2", "3", "0", "2">>, <<"K">>>>}

\* set(map(lambda s: re.findall(r"\d+", str(s))[0], items)): raises
\* IndexError when an entry has no digits.
DigitsOfAll(items) ==
    [raised |-> \E k \in 1..Len(items) : FirstDigitRun(Str(items[k])) = <<>>,
     set |-> {FirstDigitRun(Str(items[k])) : k \in 1..Len(items)}]

\* PlanningDialog._load_restricted_looms: an exception leaves the sets as
\* they are when it is raised.
LoadRestrictedLooms(stored_blocked, stored_dummy) ==
    Bind(<<DigitsOfAll(stored_blocked), DigitsOfAll(stored_dummy)>>, LAMBDA d :
        IF d[1].raised THEN [blocked |-> {}, dummy |-> {}]
        ELSE IF d[2].raised THEN [blocked |-> d[1].set, dummy |-> {}]
        ELSE [blocked |-> d[1].set, dummy |-> d[2].set])

\* _load_restricted_looms of the team planning tab: entries without digits
\* are left out.
FlowLoadRestrictedLooms(stored_blocked, stored_dummy) ==
    [blocked |-> {FirstDigitRun(Str(stored_blocked[k])) : k \in 1..Len(stored_blocked)}
                 \ {<<>>},
     dummy |-> {FirstDigitRun(Str(stored_dummy[k])) : k \in 1..Len(stored_dummy)}
               \ {<<>>}]

RestrictedInit ==
    /\ df_jobs \in {t \in JobTables : t[2] = JobPool[2]}
    /\ df_looms \in LoomTables
    /\ \E stored_blocked \in StoredBlocked, stored_dummy \in StoredDummy :
          /\ call = [fn |-> "load_restricted", args |-> <<stored_blocked, stored_dummy>>,
                     flow |-> FlowLoadRestrictedLooms(stored_blocked, stored_dummy)]
          /\ blocked_looms = LoadRestrictedLooms(stored_blocked, stored_dummy).blocked
          /\ dummy_looms = LoadRestrictedLooms(stored_blocked, stored_dummy).dummy
    /\ plan_threshold_m = 100
    /\ current_category = DefaultCategory(df_jobs)
    /\ current_group_label = DefaultLabel(df_jobs)
    /\ LET v == LoadLooms(df_jobs, df_looms, CurrentKey(df_jobs, DefaultLabel(df_jobs)),
                          DefaultCategory(df_jobs), 100, blocked_looms, dummy_looms)
       IN model_free = v.free /\ model_soon = v.soon
    /\ pc = "idle"
    /\ queue = <<>>
    /\ looms = <<>>
    /\ used_looms = {}
    /\ assigned_count = 0
    /\ total_assigned = 0
    /\ iters = 0
    /\ tz0 = <<>>
    /\ streak = 0
    /\ ev = Event("view", 0, <<>>, <<>>, 0, {})
    /\ NoTeam

RestrictedSpec == RestrictedInit /\ [][Next]_vars

(***************************************************************************)
(* The machine lists and the group counts as functions of the tables and   *)
(* of the restricted machines: the tables and the two sets read from       *)
(* storage are drawn at the start, each step builds one list.  A list is a *)
(* function of the tables, which no step changes, so every list that can   *)
(* be built is built in the first step and later steps are left out.       *)
(***************************************************************************)
\* Sets load_blocked_looms may return: digit texts.
BlockedSets == SUBSET {<<"2", "3", "0", "1">>, <<"2", "3", "0", "4">>}

\* Sets load_dummy_looms may return.
DummySets == {{}, {<<"2", "3", "0", "2">>}}

\* Machines already used when the picker is opened (exclude_looms).
ExcludeSets == {{}, {<<"2", "3", "0", "4">>}}

\* The state of the planning dialog before any dialog is built.
NoDialog ==
    /\ current_category = "NONE"
    /\ current_group_label = NoLabel
    /\ model_free = <<>>
    /\ model_soon = <<>>
    /\ pc = "idle"
    /\ queue = <<>>
    /\ looms = <<>>
    /\ used_looms = {}
    /\ assigned_count = 0
    /\ total_assigned = 0
    /\ iters = 0
    /\ tz0 = <<>>
    /\ streak = 0
    /\ ev = Event("view", 0, <<>>, <<>>, 0, {})

\* The session state of the team planning tab.
team == <<team_group, assignments, flow_used_looms, used_looms_global,
          ordered_looms_cache, flow_threshold_m>>

dialog == <<df_jobs, df_looms, blocked_looms, dummy_looms, plan_threshold_m,
            current_category, current_group_label, model_free, model_soon, pc, queue,
            looms, used_looms, assigned_count, total_assigned, iters, tz0, streak, ev>>

ListsInit ==
    /\ df_jobs \in JobTables
    /\ df_looms \in LoomTables
    /\ blocked_looms \in BlockedSets
    /\ dummy_looms \in DummySets
    /\ plan_threshold_m = 100
    /\ NoDialog
    /\ call = NoCall
    /\ NoTeam

\* The Tezgah column of a table of the planning dialog.
TezgahColumn(view) == [k \in 1..Len(view) |-> view[k].Tezgah]

\* The reed groups of the job table as the team planning tab names them.
FlowGroups(jobs) == {NormTarakGeneric(Str(jobs[i].label)) : i \in 1..Len(jobs)}

\* _load_looms_for_key_and_category for a group of the list, and the list
\* _auto_plan_for_group makes of the two tables.
BuildDialogTables ==
    /\ call = NoCall
    /\ \E category \in {"DENIM", "HAM"}, thr \in Thresholds :
         \E k \in 1..Len(LoadGroups(df_jobs, category)) :
            LET label == LoadGroups(df_jobs, category)[k]
                v == LoadLooms(df_jobs, df_looms, CurrentKey(df_jobs, label), category,
                               thr, blocked_looms, dummy_looms)
                ls == AutoLoomList(v.free, v.soon)
            IN call' = [fn |-> "load_looms", args |-> <<label, category, thr>>,
                        out |-> TezgahColumn(v.free) \o TezgahColumn(v.soon),
                        auto |-> [j \in 1..Len(ls) |-> ls[j].Tezgah]]
    /\ UNCHANGED <<dialog, team>>

\* TezgahPicker.__init__ and _build_and_fill, opened by _assign_team_to_row.
BuildPicker ==
    /\ call = NoCall
    /\ \E tg \in FlowGroups(df_jobs), grp_type \in {"denim", "ham"},
          thr \in Thresholds, used \in ExcludeSets :
         call' = Bind(PickerCandidates(df_jobs, df_looms, NormTarakGeneric(tg), grp_type,
                                       used \cup blocked_looms \cup dummy_looms, thr),
                      LAMBDA cand :
                         [fn |-> "picker", args |-> <<tg, grp_type, thr, used>>,
                          out |-> PickerView(cand),
                          bucket |-> [k \in 1..Len(cand) |-> cand[k].bucket]])
    /\ UNCHANGED <<dialog, team>>

\* ManualTezgahPicker.__init__, opened by _open_manual_picker.
BuildManualPicker ==
    /\ call = NoCall
    /\ call' = [fn |-> "manual_picker", args |-> <<>>,
                out |-> ManualBuildView(df_looms)]
    /\ UNCHANGED <<dialog, team>>

\* The counts of a group: the active machines of the picker, the open and
\* the about-to-open machines of the team planning tab.
CountLooms ==
    /\ call = NoCall
    /\ \E tg \in FlowGroups(df_jobs) \cup {NormTarakGeneric(Str(L30))},
          grp_type \in {"denim", "ham"}, thr \in Thresholds :
         call' = [fn |-> "counts", args |-> <<tg, grp_type, thr>>,
                  out |-> <<ActiveLoomsForTg(df_looms, tg, grp_type,
                                             blocked_looms \cup dummy_looms),
                            OpenLoomsCount(df_looms, tg, grp_type,
                                           blocked_looms, dummy_looms),
                            SoonLoomsCount(df_looms, tg, grp_type,
                                           blocked_looms, dummy_looms, thr)>>]
    /\ UNCHANGED <<dialog, team>>

ListsNext ==
    \/ BuildDialogTables
    \/ BuildPicker
    \/ BuildManualPicker
    \/ CountLooms

ListsSpec == ListsInit /\ [][ListsNext]_vars

(***************************************************************************)
(* The picker on tables with three reed groups, so that a group without    *)
(* jobs, a group with more machines than jobs and the target group stand   *)
(* side by side.                                                           *)
(***************************************************************************)
\* Job lists of up to three rows over the reed groups 20/2 and 30/2.
PickerJobTables ==
    LET rows == <<JobPool[3], Job(L30, "DENIM", TRUE, 1, <<>>, <<>>, <<>>, <<>>)>>
    IN UNION {{[k \in 1..n |-> rows[p[k]]] : p \in MultiPicks(n, 1, 2)} : n \in 1..MaxJobs}

\* A machine table in sheet order, in number order, and with Tezgah No read
\* as float64: two machines of 20/2, three of 30/2 and two of 40/2.
PickerLoomTables ==
    LET L40 == <<"4", "0", "/", "2">>
        sheet == << Loom(<<"2", "3", "1", "0">>, L40, TRUE, None, <<>>, <<>>),
                    LoomPool[3],
                    Loom(<<"2", "3", "0", "3">>, L30, FALSE, 40, <<>>, <<>>),
                    LoomPool[2],
                    Loom(<<"2", "3", "1", "2">>, L40, TRUE, 30, <<>>, <<>>),
                    LoomPool[1],
                    Loom(<<"2", "3", "0", "8">>, L30, FALSE, None, <<>>, <<>>) >>
        sorted == SortRowsBy(sheet, LAMBDA x : <<ToInt(x.tz)>>)
    IN {sheet, sorted, [k \in 1..Len(sorted) |-> AsFloat(sorted[k])]}

PickerInit ==
    /\ df_jobs \in PickerJobTables
    /\ df_looms \in PickerLoomTables
    /\ blocked_looms \in BlockedSets
    /\ dummy_looms \in DummySets
    /\ plan_threshold_m = 100
    /\ NoDialog
    /\ call = NoCall
    /\ NoTeam

PickerNext ==
    \/ BuildPicker
    \/ CountLooms

PickerSpec == PickerInit /\ [][PickerNext]_vars

(***************************************************************************)
(* The eligibility and compatibility rules applied to drawn arguments,     *)
(* before any table is loaded.  As above, one rule is applied per          *)
(* behaviour.                                                              *)
(***************************************************************************)
\* The machine numbers the rules are applied to.
MinLoomNo == 2199
MaxLoomNo == 2520
LoomNumbers == MinLoomNo..MaxLoomNo

\* Sus Kenar texts of jobs and machines.
SelvedgeTexts ==
    {<<>>, <<" ">>, <<"8", " ", "D">>, <<" ", "8", " ", "D", " ">>,
     <<"1", "0", " ", "D">>, <<"1", "8">>, <<"2", "0", " ", "D">>,
     <<"2", "2">>, <<"2", "5", " ", "D">>, <<"D">>, <<"n", "a", "n">>,
     <<"D", " ", "1", "2">>}

\* Weave codes of jobs and machines.
OrguCodes ==
    {<<>>, <<" ">>, <<"3", "A">>, <<" ", "3">>, <<"K", "1">>,
     <<"k", "1">>, <<"A", "3">>, <<"n", "a", "n">>, <<"D", "3">>, <<"K">>}

RulesInit ==
    /\ df_jobs = <<>>
    /\ df_looms = <<>>
    /\ blocked_looms = {}
    /\ dummy_looms = {}
    /\ plan_threshold_m = 100
    /\ NoDialog
    /\ call = NoCall
    /\ NoTeam

\* _loom_in_category
ApplyLoomInCategory ==
    /\ call = NoCall
    /\ \E n \in LoomNumbers, category \in {"HAM", "DENIM"} :
         call' = [fn |-> "loom_in_category", args |-> <<n, category>>,
                  out |-> LoomInCategory(n, category)]
    /\ UNCHANGED <<dialog, team>>

\* _loom_allowed
ApplyLoomAllowed ==
    /\ call = NoCall
    /\ \E n \in LoomNumbers, grp_type \in {"ham", "denim"} :
         call' = [fn |-> "loom_allowed", args |-> <<n, grp_type>>,
                  out |-> LoomAllowed(n, grp_type)]
    /\ UNCHANGED <<dialog, team>>

\* _selvedge_compatible_auto
ApplySelvedgeCompatible ==
    /\ call = NoCall
    /\ \E job_sup \in SelvedgeTexts, loom_sup \in SelvedgeTexts :
         call' = [fn |-> "selvedge_compatible", args |-> <<job_sup, loom_sup>>,
                  out |-> SelvedgeCompatibleAuto(job_sup, loom_sup)]
    /\ UNCHANGED <<dialog, team>>

\* _orgu_compatible
ApplyOrguCompatible ==
    /\ call = NoCall
    /\ \E job_orgu \in OrguCodes, loom_orgu \in OrguCodes :
         call' = [fn |-> "orgu_compatible", args |-> <<job_orgu, loom_orgu>>,
                  out |-> OrguCompatible(job_orgu, loom_orgu)]
    /\ UNCHANGED <<dialog, team>>

RulesNext ==
    \/ ApplyLoomInCategory
    \/ ApplyLoomAllowed
    \/ ApplySelvedgeCompatible
    \/ ApplyOrguCompatible

RulesSpec == RulesInit /\ [][RulesNext]_vars

(***************************************************************************)
(* The team planning tab (TeamPlanningFlowTab): a group of the list is     *)
(* selected, a job row of the group is double-clicked and gets a machine,  *)
(* as a knot from _next_free_loom or as a team from the picker dialog.     *)
(* Every job row has its own order number, so the job key of a row stands *)
(* for the row.                                                            *)
(***************************************************************************)
\* A session is followed until this many machine texts are in
\* _used_looms_global.
MaxUsedLooms == 2

\* The machine the planning dialog has written to a job of the table.
KnotLoom == <<"2", "3", "0", "1">>

\* Job tables, one job of which may hold a machine already.
TeamJobTables ==
    LET some == {[k \in 1..MaxJobs |-> JobPool[p[k]]] : p \in MultiPicks(MaxJobs, 2, 3)}
                \cup {[k \in 1..MaxJobs |-> JobPool[IF k = 1 THEN 2 ELSE 5]]}
    IN some \cup {[t EXCEPT ![1].tz = KnotLoom] : t \in some}

\* No machine recorded for a job.
NoAssign == [loom |-> <<>>, dugum |-> FALSE]

\* The machine an assignment names.
AssignedMachine(a) == FirstDigitRun(Str(a.loom))

\* The machines that were recorded for a job other than job in asg.
HeldByOthers(asg, job) ==
    {AssignedMachine(asg[i]) : i \in {j \in 1..Len(asg) : j # job /\ asg[j] # NoAssign}}

\* want of _jobs_of_group
WantCategory(grp_type) == IF grp_type = "ham" THEN "HAM" ELSE "DENIM"

\* The groups of lst_groups, each under the header of its category.
TeamGroups(jobs) ==
    {[tg |-> NormTarakGeneric(Str(jobs[i].label)),
      grp_type |-> IF jobs[i].cat = "HAM" THEN "ham" ELSE "denim"] : i \in 1..Len(jobs)}

\* _jobs_of_group: the rows of the group and category.
ViewRows(jobs, g) ==
    {i \in 1..Len(jobs) : /\ NormTarakGeneric(Str(jobs[i].label)) = g.tg
                          /\ jobs[i].cat = WantCategory(g.grp_type)}

\* _jobs_of_group: the rows that come with a machine, initial_assignments.
InitialRows(jobs, g) ==
    {i \in ViewRows(jobs, g) : jobs[i].tz # NaN /\ Strip(Str(jobs[i].tz)) # <<>>}

\* tz_digits of _jobs_of_group
TzDigits(tz) ==
    Bind(Strip(Str(tz)), LAMBDA t : IF LoomDigits(t) # <<>> THEN LoomDigits(t) ELSE t)

\* _jobs_of_group: _assignments after the initial assignments are recorded.
RecordInitial(jobs, g, asg) ==
    [i \in 1..Len(asg) |->
        IF i \in InitialRows(jobs, g) /\ asg[i] = NoAssign
        THEN [loom |-> TzDigits(jobs[i].tz), dugum |-> TRUE]
        ELSE asg[i]]

\* _jobs_of_group: what the initial assignments add to _used_looms_global.
InitialDigits(jobs, g) == {TzDigits(jobs[i].tz) : i \in InitialRows(jobs, g)}

\* _ordered_candidate_looms: the open machines of the group in table order,
\* then the machines about to open by remaining metres.
OrderedCandidateLooms(machines, tg_norm, grp_type, blk, dmy, thr) ==
    Bind(FilterRows(machines,
                    LAMBDA x : /\ NormTarakGeneric(Str(x.label)) = tg_norm
                               /\ FlowAllowedRow(x, grp_type, blk, dmy)),
         LAMBDA sub :
    Bind(FilterRows(sub, LAMBDA x : x.open = TRUE) \o
         SortRowsBy(FilterRows(sub, LAMBDA x : /\ x.open # TRUE
                                               /\ x.kalan # None
                                               /\ x.kalan <= thr),
                    LAMBDA x : <<x.kalan>>),
         LAMBDA out :
        [k \in 1..Len(out) |-> Str(out[k].tz)]))

\* _ordered_candidate_looms from its first lines on: the list the cache
\* holds for the pair when it holds one, the computed list otherwise.
CachedCandidateLooms(cache, machines, tg_norm, grp_type, blk, dmy, thr) ==
    Bind({c \in cache : c[1] = <<tg_norm, grp_type>>}, LAMBDA hit :
        IF hit # {} THEN (CHOOSE c \in hit : TRUE)[2]
        ELSE OrderedCandidateLooms(machines, tg_norm, grp_type, blk, dmy, thr))

\* _next_free_loom: the candidates that pass, the first of which is taken.
NextFreeLoom(ls, used, used_global, blk, dmy) ==
    FilterRows(ls, LAMBDA loom : /\ loom \notin used
                                 /\ loom \notin used_global
                                 /\ LoomDigits(loom) \notin blk
                                 /\ LoomDigits(loom) \notin dmy)

\* exclude of _assign_team_to_row
TeamExclude(asg, used_global, blk, dmy) ==
    used_global
    \cup ({FirstDigitRun(Str(asg[i].loom)) : i \in 1..Len(asg)} \ {<<>>})
    \cup blk \cup dmy

TeamInit ==
    /\ df_jobs \in TeamJobTables
    /\ df_looms \in LoomTables
    /\ blocked_looms = {}
    /\ dummy_looms \in DummySets
    /\ plan_threshold_m = 100
    /\ NoDialog
    /\ call = NoCall
    /\ team_group = NoGroup
    /\ assignments = [i \in 1..Len(df_jobs) |-> NoAssign]
    /\ flow_used_looms = {}
    /\ used_looms_global = {}
    /\ ordered_looms_cache = {}
    /\ flow_threshold_m = FlowThresholdM

\* _bind_group_jobs: a group of the list is selected.
BindGroupJobs ==
    /\ \E g \in TeamGroups(df_jobs) :
         /\ team_group' = g
         /\ assignments' = RecordInitial(df_jobs, g, assignments)
         /\ used_looms_global' = used_looms_global \cup InitialDigits(df_jobs, g)
    /\ call' = [fn |-> "bind"]
    /\ UNCHANGED <<dialog, flow_used_looms, ordered_looms_cache, flow_threshold_m>>

\* _assign_on_doubleclick with _assign_dugum_to_row and _assign_team_to_row:
\* the row and the column clicked, the answer to the knot-or-team question,
\* and what is done in the picker (the threshold set, a row of its list or
\* of the manual list taken, or the picker closed).
AssignOnDoubleclick ==
    /\ team_group # NoGroup
    /\ Cardinality(used_looms_global) < MaxUsedLooms
    /\ \E row \in ViewRows(df_jobs, team_group) :
         \E target_tg_norm \in {NormTarakGeneric(Str(df_jobs[row].label))},
            grp_type \in {team_group.grp_type} :
         \E prompt_due \in
               {/\ OpenLoomsCount(df_looms, team_group.tg, grp_type,
                                  blocked_looms, dummy_looms) # 0
                /\ ~assignments[row].dugum
                /\ \A i \in ViewRows(df_jobs, team_group) : ~assignments[i].dugum},
            ls \in {CachedCandidateLooms(ordered_looms_cache, df_looms, target_tg_norm,
                                         grp_type, blocked_looms, dummy_looms,
                                         flow_threshold_m)} :
         \E free \in {NextFreeLoom(
                         ls,
                         {u[3] : u \in {v \in flow_used_looms :
                                            v[1] = target_tg_norm /\ v[2] = grp_type}},
                         used_looms_global, blocked_looms, dummy_looms)},
            exclude \in {TeamExclude(assignments, used_looms_global,
                                     blocked_looms, dummy_looms)},
            held \in {HeldByOthers(assignments, row)} :
         \E way \in {"tiered", "manual", "cancel"}, thr \in Thresholds :
         \E list \in
               {IF way = "manual" THEN ManualBuildView(df_looms)
                ELSE IF way = "tiered"
                THEN PickerView(PickerCandidates(df_jobs, df_looms, target_tg_norm,
                                                 grp_type, exclude, thr))
                ELSE <<>>} :
         \E on_tezgah \in BOOLEAN, choice \in {"dugum", "takim", "none"},
            k \in 1..MaxLooms :
         \E needs_prompt \in {on_tezgah /\ prompt_due} :
         \E try_dugum \in {~needs_prompt \/ choice = "dugum"},
            try_takim \in {IF needs_prompt THEN choice = "takim" ELSE free = <<>>} :
          /\ ordered_looms_cache' =
                IF try_dugum
                THEN ordered_looms_cache \cup {<<<<target_tg_norm, grp_type>>, ls>>}
                ELSE ordered_looms_cache
          /\ IF try_dugum /\ free # <<>>
            THEN /\ assignments' =
                      [assignments EXCEPT ![row] = [loom |-> free[1], dugum |-> TRUE]]
                 /\ flow_used_looms' =
                      flow_used_looms \cup {<<target_tg_norm, grp_type, free[1]>>}
                 /\ used_looms_global' = used_looms_global \cup {free[1]}
                 /\ call' = [fn |-> "assign", job |-> row, way |-> "dugum",
                             loom |-> free[1], held |-> held]
            ELSE IF try_takim /\ k <= Len(list) /\ Strip(list[k]) # <<>>
            THEN /\ assignments' =
                      [assignments EXCEPT ![row] = [loom |-> Strip(list[k]),
                                                    dugum |-> FALSE]]
                 /\ used_looms_global' = used_looms_global \cup {Strip(list[k])}
                 /\ call' = [fn |-> "assign", job |-> row, way |-> way,
                             loom |-> Strip(list[k]), held |-> held]
                 /\ UNCHANGED flow_used_looms
            ELSE /\ call' = [fn |-> "no_assign"]
                 /\ UNCHANGED <<assignments, flow_used_looms, used_looms_global>>
    /\ UNCHANGED <<dialog, team_group, flow_threshold_m>>

\* _reset_team_assignments, which binds the selected group again.
ResetTeamAssignments ==
    /\ assignments' =
          IF team_group = NoGroup THEN [i \in 1..Len(df_jobs) |-> NoAssign]
          ELSE RecordInitial(df_jobs, team_group, [i \in 1..Len(df_jobs) |-> NoAssign])
    /\ flow_used_looms' = {}
    /\ used_looms_global' =
          IF team_group = NoGroup THEN {} ELSE InitialDigits(df_jobs, team_group)
    /\ ordered_looms_cache' = {}
    /\ call' = [fn |-> "reset"]
    /\ UNCHANGED <<dialog, team_group, flow_threshold_m>>

TeamNext ==
    \/ BindGroupJobs
    \/ AssignOnDoubleclick
    \/ ResetTeamAssignments

TeamSpec == TeamInit /\ [][TeamNext]_vars

(***************************************************************************)
(* The team planning tab with its threshold box and with the main window   *)
(* handing over its tables again (refresh_sources).  The main window hands *)
(* over the job table it had and a machine table that was read anew.       *)
(***************************************************************************)
\* _rebuild_groups: the row of lst_groups that is selected, the first group
\* under the first header, the groups in (number, text) order.
FirstTeamGroup(jobs) ==
    LET of(t) == {g \in TeamGroups(jobs) : g.grp_type = t /\ Strip(g.tg) # <<>>}
        before(g, h) ==
            LET a == FirstDigitRun(g.tg)
                b == FirstDigitRun(h.tg)
            IN IF (a = <<>>) # (b = <<>>) THEN a # <<>>
               ELSE IF a # <<>> /\ ToInt(a) # ToInt(b) THEN ToInt(a) < ToInt(b)
               ELSE StrLess(g.tg, h.tg)
        first(S) == CHOOSE g \in S : \A h \in S \ {g} : before(g, h)
    IN IF of("denim") # {} THEN first(of("denim"))
       ELSE IF of("ham") # {} THEN first(of("ham"))
       ELSE NoGroup

\* A faulty _on_threshold_changed that forgets the machines given so far.
OnFlowThresholdChanged_ForgetsUsed ==
    /\ \E v \in {50, FlowThresholdM} \ {flow_threshold_m} : flow_threshold_m' = v
    /\ ordered_looms_cache' = {}
    /\ assignments' = RecordInitial(df_jobs, team_group, assignments)
    /\ used_looms_global' = InitialDigits(df_jobs, team_group)
    /\ call' = [fn |-> "threshold"]
    /\ UNCHANGED <<dialog, team_group, flow_used_looms>>

\* _on_threshold_changed: the box "Açacak <=" takes another value.
OnFlowThresholdChanged ==
    /\ \E v \in {50, FlowThresholdM} \ {flow_threshold_m} : flow_threshold_m' = v
    /\ ordered_looms_cache' = {}
    /\ assignments' = RecordInitial(df_jobs, team_group, assignments)
    /\ used_looms_global' = used_looms_global \cup InitialDigits(df_jobs, team_group)
    /\ call' = [fn |-> "threshold"]
    /\ UNCHANGED <<dialog, team_group, flow_used_looms>>

\* refresh_sources with _rebuild_groups, which selects the first group and so
\* binds it.
RefreshSources ==
    /\ df_looms' \in {LoomTables_Plain, UnsortedLooms}
    /\ \E g \in {FirstTeamGroup(df_jobs)} :
         /\ team_group' = g
         /\ assignments' = RecordInitial(df_jobs, g, assignments)
         /\ used_looms_global' = used_looms_global \cup InitialDigits(df_jobs, g)
    /\ call' = [fn |-> "refresh"]
    /\ UNCHANGED <<df_jobs, blocked_looms, dummy_looms, plan_threshold_m,
                   current_category, current_group_label, model_free, model_soon, pc,
                   queue, looms, used_looms, assigned_count, total_assigned, iters,
                   tz0, streak, ev, flow_used_looms, ordered_looms_cache,
                   flow_threshold_m>>

TeamSessionNext ==
    \/ BindGroupJobs
    \/ AssignOnDoubleclick
    \/ ResetTeamAssignments
    \/ OnFlowThresholdChanged
    \/ RefreshSources

\* The tab opened on two DENIM jobs and a HAM job of one reed group, the
\* first of which may come with a machine.
TeamSessionInit ==
    /\ df_jobs \in {t \in [1..MaxJobs -> {JobPool[2], JobPool[3], JobPool[5],
                                           [JobPool[2] EXCEPT !.tz = KnotLoom]}] :
                       /\ t[1].orgu = JobPool[2].orgu
                       /\ t[2] = JobPool[3]
                       /\ t[3] = JobPool[5]}
    /\ df_looms \in {LoomTables_Plain, UnsortedLooms}
    /\ blocked_looms = {}
    /\ dummy_looms = {}
    /\ plan_threshold_m = 100
    /\ NoDialog
    /\ call = NoCall
    /\ team_group = NoGroup
    /\ assignments = [i \in 1..Len(df_jobs) |-> NoAssign]
    /\ flow_used_looms = {}
    /\ used_looms_global = {}
    /\ ordered_looms_cache = {}
    /\ flow_threshold_m = FlowThresholdM

TeamSessionSpec == TeamSessionInit /\ [][TeamSessionNext]_vars

(***************************************************************************)
(* What the claims speak of.                                               *)
(***************************************************************************)
\* The machine a Tezgah Numarasi cell names: its digits (<<>>: no machine).
MachineOf(tz) == FirstDigitRun(Str(tz))

\* No machine is the assigned machine of two jobs.
NoDoubleBooking(jobs) ==
    \A i, j \in 1..Len(jobs) :
        i # j /\ MachineOf(jobs[i].tz) # <<>> => MachineOf(jobs[i].tz) # MachineOf(jobs[j].tz)

\* The job table before the step that ev reports.
PreJobs == IF ev.job = 0 THEN df_jobs ELSE SetTz(df_jobs, ev.job, ev.pre)

\* The job table when the current call of _auto_plan_for_group began.
StartJobs == [i \in 1..Len(df_jobs) |-> [df_jobs[i] EXCEPT !.tz = tz0[i]]]

\* The call of _auto_plan_for_group for the current group has just returned.
GroupReturned == ev.op \in {"auto_done", "auto_halt", "auto_nolooms", "auto_nokey"}

\* Jobs the current call has given a machine, has skipped, has changed.
AssignedInCall == {i \in 1..Len(df_jobs) : df_jobs[i].tz # tz0[i] /\ df_jobs[i].tz # Atla}
SkippedInCall == {i \in 1..Len(df_jobs) : df_jobs[i].tz # tz0[i] /\ df_jobs[i].tz = Atla}
ChangedInCall == {i \in 1..Len(df_jobs) : df_jobs[i].tz # tz0[i]}

\* The weave check and the selvedge check of the automatic allocator for a
\* job row and an entry of the loom list.
AutoCompatible(job, loom) ==
    /\ OrguCompatible(Strip(Str(job.orgu)), loom.Orgu)
    /\ SelvedgeCompatibleAuto(Strip(Str(job.sup)), loom.SusKenar)

\* Row i is an earliest-due row among the rows of S.
EarliestDue(jobs, S, i) == i \in S /\ \A j \in S : ~DueBefore(jobs[j].due, jobs[i].due)

(***************************************************************************)
(* C1.  An automatic run started from a job table in which no machine is   *)
(* assigned to two jobs never assigns a machine that some job already      *)
(* holds: each assignment it makes on a table without double booking       *)
(* leaves a table without double booking.  (Refuted: a Tezgah No column    *)
(* read as float64 prints as "2301.0", the filter of assigned machines     *)
(* compares its digits "2301" with that text, and the machine is offered   *)
(* again.)                                                                 *)
(***************************************************************************)
C1_AutoNeverDoubleBooks ==
    (ev.op = "auto_assign" /\ NoDoubleBooking(PreJobs)) => NoDoubleBooking(df_jobs)

(***************************************************************************)
(* C2.  Every job picked by _assign_first_job, _assign_first_job_auto or   *)
(* _on_skip_current had an empty assigned-machine field ("" or NaN) at the *)
(* moment it was picked: a set field, machine number or "Atla", is never   *)
(* overwritten.                                                            *)
(***************************************************************************)
C2_PickedJobWasUnassigned ==
    ev.op \in {"auto_assign", "auto_skip", "manual_assign", "manual_skip",
               "manual_other", "skip_current"}
    => /\ ev.pre \in {<<>>, NaN}
       /\ \A i \in 1..Len(df_jobs) : i # ev.job => df_jobs[i].tz = PreJobs[i].tz

\* An allocator has just picked a job although an earlier-due job of the same
\* group and category has its field set.
C2_Witness ==
    /\ ev.op \in {"auto_assign", "manual_assign", "skip_current"}
    /\ \E i \in 1..Len(df_jobs) :
          /\ i # ev.job
          /\ df_jobs[i].key = df_jobs[ev.job].key
          /\ df_jobs[i].cat = df_jobs[ev.job].cat
          /\ df_jobs[i].tz \notin {<<>>, NaN}
          /\ DueBefore(df_jobs[i].due, df_jobs[ev.job].due)

(***************************************************************************)
(* C3.  The automatic allocator never stops a group while the earliest-due *)
(* unassigned job of the group carries a remark: such a job is skipped     *)
(* whether or not an unused machine remains.  (Refuted: the remark is only *)
(* looked at inside the walk over the unused machines.)                    *)
(***************************************************************************)
C3_NeverStopsOnRemarkJob ==
    ev.op \in {"auto_halt", "auto_nolooms"}
    => LET idx == FirstJob(df_jobs, CurrentKey(df_jobs, current_group_label),
                           current_category)
       IN idx = 0 \/ ~HasRemark(df_jobs[idx].note)

(***************************************************************************)
(* C4.  When the automatic allocator assigns a job, the machine is the     *)
(* first entry of the loom list that is not in used_looms and passes the   *)
(* weave and the selvedge check for the job, and the job is an earliest-   *)
(* due unassigned job of the group and category at that moment.            *)
(***************************************************************************)
C4_FirstCompatibleLoom ==
    [][(pc = "loop" /\ ev'.op = "auto_assign" /\ df_jobs' # df_jobs)
       => LET c == CandidateRows(df_jobs, CurrentKey(df_jobs, current_group_label),
                                 current_category)
              j == ev'.job
          IN /\ EarliestDue(df_jobs, c, j)
             /\ df_jobs' = SetTz(df_jobs, j, ev'.loom)
             /\ \E p \in 1..Len(looms) :
                   /\ looms[p].Tezgah = ev'.loom
                   /\ looms[p].Tezgah \notin used_looms
                   /\ AutoCompatible(df_jobs[j], looms[p])
                   /\ \A q \in 1..(p - 1) :
                         \/ looms[q].Tezgah \in used_looms
                         \/ ~AutoCompatible(df_jobs[j], looms[q])]_vars

\* The allocator has just assigned a machine that is not the first unused
\* entry of the loom list: an earlier unused one did not fit the job.
C4_Witness ==
    /\ ev.op = "auto_assign"
    /\ \E p, q \in 1..Len(looms) :
          /\ q < p
          /\ looms[p].Tezgah = ev.loom
          /\ looms[q].Tezgah \notin used_looms
          /\ ~AutoCompatible(df_jobs[ev.job], looms[q])

(***************************************************************************)
(* C5 (as amended).  The integer _auto_plan_for_group returns equals the   *)
(* number of jobs the call assigned to a machine; the jobs it marked       *)
(* skipped are not counted.                                                *)
(***************************************************************************)
C5_ReturnCountsAssigned == GroupReturned => ev.n = Cardinality(AssignedInCall)

\* A call has returned after assigning a job and skipping another.
C5_Witness == GroupReturned /\ ev.n >= 1 /\ SkippedInCall # {}

\* C5 as first stated: the returned integer counts the assigned and the
\* skipped jobs.
C5_ReturnCountsChanged == GroupReturned => ev.n = Cardinality(ChangedInCall)

(***************************************************************************)
(* C6.  A run of auto_plan_all_groups that directly follows another run on *)
(* the same tables assigns no job.  (Refuted: with a Tezgah No column read *)
(* as float64 the machines the first run used are offered again to the     *)
(* jobs it left unassigned.)                                               *)
(***************************************************************************)
C6_SecondRunAssignsNothing == ev.op = "auto_assign" => streak = 0

(***************************************************************************)
(* C7 (as amended).  For one group the while loop of _auto_plan_for_group  *)
(* makes at most |jobsInGroup| + 1 passes, jobsInGroup being the jobs of   *)
(* the group and category that are unassigned when the call starts: every  *)
(* pass but the last assigns or skips one job, and the last pass, which    *)
(* finds no candidate or makes no progress, leaves the loop.               *)
(***************************************************************************)
JobsInGroup ==
    CandidateRows(StartJobs, CurrentKey(df_jobs, current_group_label), current_category)

C7_PassesBounded ==
    /\ pc = "loop" => iters = Cardinality(ChangedInCall) /\ ChangedInCall \subseteq JobsInGroup
    /\ ev.op \in {"auto_done", "auto_halt"}
       => /\ iters = Cardinality(ChangedInCall) + 1
          /\ iters <= Cardinality(JobsInGroup) + 1

\* The loop has been left in the pass that follows the handling of every job
\* of the group.
C7_Witness ==
    /\ ev.op = "auto_done"
    /\ Cardinality(JobsInGroup) >= 2
    /\ iters = Cardinality(JobsInGroup) + 1

\* C7 as first stated: at most |jobsInGroup| passes.
C7_PassesAtMostJobs ==
    (pc = "loop" \/ ev.op \in {"auto_done", "auto_halt"})
    => iters <= Cardinality(JobsInGroup)

(***************************************************************************)
(* C8.  The automatic allocator terminates: the loop of every group is     *)
(* left, and the run over all groups returns.                              *)
(***************************************************************************)
C8_AutoTerminates ==
    /\ (pc = "loop") ~> (pc = "groups")
    /\ (pc # "idle") ~> (pc = "idle")

\* A run over two groups has returned after assigning jobs.
C8_Witness == pc = "idle" /\ ev.op = "auto_end" /\ ev.n >= 2

(***************************************************************************)
(* C9.  When the n unassigned jobs of a group carry no remark and the loom *)
(* list holds k < n machines, each compatible with each of these jobs, the *)
(* call assigns exactly k earliest-due jobs to k distinct machines of the  *)
(* list, leaves the other n - k jobs unassigned, and stops for lack of     *)
(* progress.                                                               *)
(***************************************************************************)
C9_Premise ==
    /\ ev.op \in {"auto_done", "auto_halt"}
    /\ Len(looms) < Cardinality(JobsInGroup)
    /\ \A i \in JobsInGroup :
          /\ ~HasRemark(df_jobs[i].note)
          /\ \A p \in 1..Len(looms) : AutoCompatible(df_jobs[i], looms[p])

C9_KEarliestAssigned ==
    C9_Premise
    => /\ ev.op = "auto_halt"
       /\ Cardinality(AssignedInCall) = Len(looms)
       /\ AssignedInCall \subseteq JobsInGroup
       /\ \A i \in AssignedInCall :
             /\ \E p \in 1..Len(looms) : df_jobs[i].tz = looms[p].Tezgah
             /\ \A j \in AssignedInCall : j # i => df_jobs[j].tz # df_jobs[i].tz
             /\ \A j \in JobsInGroup \ AssignedInCall :
                   ~DueBefore(df_jobs[j].due, df_jobs[i].due)
       /\ \A j \in JobsInGroup \ AssignedInCall : df_jobs[j].tz = tz0[j]

\* Three jobs, two machines: two jobs assigned, the third left unassigned.
C9_Witness ==
    /\ C9_Premise
    /\ Len(looms) = 2
    /\ Cardinality(JobsInGroup) = 3
    /\ Cardinality(AssignedInCall) = 2

(***************************************************************************)
(* C10 (as amended).  The loom list the automatic allocator builds for a   *)
(* group holds the machines mounted with the group's own reed key that are *)
(* eligible for the category, not restricted, and whose number is not      *)
(* among the texts of the jobs' Tezgah Numarasi column: the open ones in   *)
(* ascending machine number, then the ones about to open within the        *)
(* threshold in ascending machine number.  Machines mounted with other     *)
(* groups are never in it.                                                 *)
(***************************************************************************)
OwnLooms ==
    {i \in 1..Len(df_looms) :
        LET r == df_looms[i]
            n == ToInt(MachineOf(r.tz))
        IN /\ TarakKey(Str(r.label)) = CurrentKey(df_jobs, current_group_label)
           /\ MachineOf(r.tz) # <<>>
           /\ n \notin NEVER
           /\ IF current_category = "HAM" THEN 2447 <= n /\ n <= 2518
              ELSE 2201 <= n /\ n <= 2446
           /\ MachineOf(r.tz) \notin blocked_looms \cup dummy_looms
           /\ \A j \in 1..Len(df_jobs) : Strip(Str(df_jobs[j].tz)) # MachineOf(r.tz)
           /\ \/ r.open = TRUE
              \/ (r.kalan # None /\ r.kalan <= plan_threshold_m)}

C10_OwnGroupLoomList ==
    ev.op \in {"auto_group", "auto_nolooms"}
    => /\ Len(looms) = Cardinality(OwnLooms)
       /\ \A i \in OwnLooms : \E p \in 1..Len(looms) :
             looms[p] = [Tezgah |-> Strip(Str(df_looms[i].tz)),
                         SusKenar |-> Strip(Str(df_looms[i].sup)),
                         Orgu |-> Strip(Str(df_looms[i].orgu))]
       /\ \A p, q \in 1..Len(looms) : p < q =>
             LET a == CHOOSE i \in OwnLooms : Strip(Str(df_looms[i].tz)) = looms[p].Tezgah
                 b == CHOOSE i \in OwnLooms : Strip(Str(df_looms[i].tz)) = looms[q].Tezgah
             IN TupleLess(<<OpenPrio(df_looms[a]), ToInt(MachineOf(df_looms[a].tz))>>,
                          <<OpenPrio(df_looms[b]), ToInt(MachineOf(df_looms[b].tz))>>)

\* The list of a group holds an open machine and one about to open, while an
\* eligible open machine of a group without jobs is left out of it.
C10_Witness ==
    /\ ev.op = "auto_group"
    /\ Len(looms) >= 2
    /\ \E i \in 1..Len(df_looms) :
          /\ i \notin OwnLooms
          /\ df_looms[i].open = TRUE
          /\ LoomInCategory(ToInt(MachineOf(df_looms[i].tz)), current_category)
          /\ JobsTotalForTg(df_jobs, NormTarakGeneric(Str(df_looms[i].label))) = 0

\* C10 as first stated: the list is the candidate builder's Tier-0 and Tier-1
\* machines in its sort order, the group's own machines only when both tiers
\* are empty.
C10_TierLoomList ==
    ev.op \in {"auto_group", "auto_nolooms"}
    => LET cand == PickerSort(
                      PickerParts(df_jobs, df_looms, NormTarakGeneric(current_group_label),
                                  IF current_category = "HAM" THEN "ham" ELSE "denim",
                                  blocked_looms \cup dummy_looms, plan_threshold_m),
                      plan_threshold_m)
       IN [p \in 1..Len(looms) |-> looms[p].Tezgah]
          = [k \in 1..Len(cand) |-> Strip(Str(cand[k].row.tz))]

(***************************************************************************)
(* Restricted machines.                                                    *)
(***************************************************************************)
Restricted == blocked_looms \cup dummy_looms

\* The machine table without the rows of restricted machines.
Unrestricted == FilterRows(df_looms, LAMBDA r : FirstDigitRun(Str(r.tz)) \notin Restricted)

\* C11: a machine in the under-maintenance set or in the dummy set is in no
\* list of machines offered for assignment (the two tables of the planning
\* dialog, the list of the automatic allocator, the tiered list and the
\* manual list of the picker), and the active, open and about-to-open counts
\* of a group are what they would be without that machine in the table.
C11_RestrictedNeverOffered ==
    /\ call.fn \in {"load_looms", "picker", "manual_picker"} =>
          \A k \in 1..Len(call.out) : FirstDigitRun(call.out[k]) \notin Restricted
    /\ call.fn = "load_looms" =>
          \A k \in 1..Len(call.auto) : FirstDigitRun(call.auto[k]) \notin Restricted
    /\ call.fn = "counts" =>
          call.out = <<ActiveLoomsForTg(Unrestricted, call.args[1], call.args[2], {}),
                       OpenLoomsCount(Unrestricted, call.args[1], call.args[2], {}, {}),
                       SoonLoomsCount(Unrestricted, call.args[1], call.args[2], {}, {},
                                      call.args[3])>>

\* The same without the manual list of the picker.
RestrictedNeverOfferedButManual ==
    call.fn # "manual_picker" => C11_RestrictedNeverOffered

(***************************************************************************)
(* Interactive assignment.                                                 *)
(***************************************************************************)
\* The texts a machine of the pool is shown with in a table of the dialog.
MachineTexts ==
    {Strip(Str(LoomPool[k].tz)) : k \in 1..Len(LoomPool)}
    \cup {Strip(Str(AsFloat(LoomPool[k]).tz)) : k \in 1..Len(LoomPool)}
    \cup {Strip(Str(UnsortedLooms[k].tz)) : k \in 1..Len(UnsortedLooms)}

\* Machine m is a row of the Bos or of the Acilacak table.
OfferedIn(free, soon, m) ==
    \/ \E k \in 1..Len(free) : Strip(free[k].Tezgah) = m
    \/ \E k \in 1..Len(soon) : Strip(soon[k].Tezgah) = m

Offered(m) == OfferedIn(model_free, model_soon, m)

\* The last step was a confirmed interactive assignment of machine m.
ManualAssigned(m) == ev.op = "manual_assign" /\ ev.loom = m

\* C12: after a confirmed interactive assignment of machine m the job's
\* assigned machine is m and the row taken out of the table is the row of m,
\* whatever the order of the machine table: m is in neither candidate table.
C12_AssignedMachineNotOffered ==
    ev.op = "manual_assign" => /\ df_jobs[ev.job].tz = ev.loom
                               /\ ~Offered(ev.loom)

\* After a confirmed interactive assignment of machine m, m is in neither
\* candidate table from then on, also after a group is selected again or the
\* threshold is changed.
AssignedMachineNeverOfferedAgain ==
    \A m \in MachineTexts :
        [](ManualAssigned(m) => /\ df_jobs[ev.job].tz = m
                                /\ [](~Offered(m)))

\* The last step was a double click on a machine of a candidate table.
ManualEvent == ev.op \in {"manual_assign", "manual_skip", "manual_other"}

\* The selvedge and the weave code of the clicked machine, as the table of
\* the dialog shows them.
ClickedLoom ==
    LET r == df_looms[CHOOSE k \in 1..Len(df_looms) :
                         Strip(Str(df_looms[k].tz)) = ev.loom]
    IN [Tezgah |-> ev.loom, SusKenar |-> Strip(Str(r.sup)), Orgu |-> Strip(Str(r.orgu))]

\* The operator was asked the three-way question (proceed, skip, choose a
\* different machine) about the weave or about the selvedge.
DecisionSurfaced == ev.asked \cap {"orgu", "sup"} # {}

\* The call ended at the remark question, before the compatibility checks.
StoppedAtRemark == ev.op = "manual_skip" /\ ev.asked = {"note"}

\* C13: the interactive allocator asks the three-way question exactly when
\* the selvedge rule or the weave rule fails for the job and the clicked
\* machine; a pair that passes both rules is assigned without the question.
C13_DecisionExactlyOnIncompatibility ==
    (ManualEvent /\ ~StoppedAtRemark)
    => (DecisionSurfaced <=> ~AutoCompatible(df_jobs[ev.job], ClickedLoom))

\* C14: the answer "choose a different machine" changes nothing: the job
\* table, both candidate tables and the used machines stay as they were, so
\* the job is still unassigned, the machine is still offered, and the same
\* job is the one presented for the next machine.
C14_OtherMachineChangesNothing ==
    [][ev'.op = "manual_other"
       => /\ df_jobs' = df_jobs
          /\ model_free' = model_free
          /\ model_soon' = model_soon
          /\ used_looms' = used_looms
          /\ UNCHANGED <<tables, plan_threshold_m, current_category,
                          current_group_label, pc, queue, locals, total_assigned>>
          /\ Unassigned(df_jobs'[ev'.job].tz)
          /\ OfferedIn(model_free', model_soon', ev'.loom)
          /\ FirstJob(df_jobs', CurrentKey(df_jobs', current_group_label'),
                      current_category') = ev'.job]_vars

\* The operator answered "choose a different machine" to a question about a
\* job that has no machine, for a machine that is listed.
C14_Witness ==
    /\ ev.op = "manual_other"
    /\ DecisionSurfaced
    /\ Unassigned(df_jobs[ev.job].tz)
    /\ Offered(ev.loom)

(***************************************************************************)
(* The fallback of the picker.                                             *)
(***************************************************************************)
\* The machines the picker was opened without: used, blocked and dummy ones.
PickerExclude == call.args[4] \cup blocked_looms \cup dummy_looms

\* The rows of the machine table that are eligible for the category the
\* picker was opened for and not excluded.
PickerEligible ==
    {i \in 1..Len(df_looms) :
        /\ LoomNoAsInt(df_looms[i].tz) # None
        /\ LoomAllowed(LoomNoAsInt(df_looms[i].tz), call.args[2])
        /\ LoomDigits(df_looms[i].tz) \notin PickerExclude}

TgOf(i) == NormTarakGeneric(Str(df_looms[i].label))

\* Tier 0 and Tier 1 yield no machine: every eligible machine stands in a
\* group that has jobs, and no group has more eligible machines than jobs.
TiersEmpty ==
    \A i \in PickerEligible :
        /\ JobsTotalForTg(df_jobs, TgOf(i)) > 0
        /\ Cardinality({k \in PickerEligible : TgOf(k) = TgOf(i)})
              <= JobsTotalForTg(df_jobs, TgOf(i))

\* The eligible machines of the target group that are open or within the
\* threshold.
OwnViable ==
    {i \in PickerEligible :
        /\ TgOf(i) = NormTarakGeneric(call.args[1])
        /\ Viable(df_looms[i], call.args[3])}

GrpTypeOf(category) == IF category = "HAM" THEN "ham" ELSE "denim"
CategoryOf(grp_type) == IF grp_type = "ham" THEN "HAM" ELSE "DENIM"

\* Eligibility as the claim states it.
Eligible(n, ham) ==
    /\ n \notin NEVER
    /\ IF ham THEN 2447 <= n /\ n <= 2518 ELSE 2201 <= n /\ n <= 2446

\* C16: a machine number of the never-allowed set is eligible for nothing;
\* any other number is eligible for HAM exactly when it is in 2447..2518 and
\* for DENIM exactly when it is in 2201..2446; _loom_in_category and
\* _loom_allowed agree; no number is eligible for both categories.
C16_CategoryEligibility ==
    /\ call.fn = "loom_in_category" =>
          /\ call.out = Eligible(call.args[1], call.args[2] = "HAM")
          /\ call.out = LoomAllowed(call.args[1], GrpTypeOf(call.args[2]))
          /\ ~(LoomInCategory(call.args[1], "HAM")
                /\ LoomInCategory(call.args[1], "DENIM"))
    /\ call.fn = "loom_allowed" =>
          /\ call.out = Eligible(call.args[1], call.args[2] = "ham")
          /\ call.out = LoomInCategory(call.args[1], CategoryOf(call.args[2]))
          /\ ~(LoomAllowed(call.args[1], "ham") /\ LoomAllowed(call.args[1], "denim"))

\* Number 2446, the top of the DENIM range, is in the never-allowed set and
\* is refused for DENIM.
C16_Witness ==
    /\ call.fn = "loom_in_category"
    /\ call.args = <<2446, "DENIM">>
    /\ call.out = FALSE

\* The selvedge rule as the claim states it, on the two texts without the
\* blanks around them.
SelvedgeRule(a, b) ==
    IF a = <<>> \/ b = <<>> \/ a = b THEN TRUE
    ELSE IF FirstDigitRun(a) = <<>> \/ FirstDigitRun(b) = <<>> THEN FALSE
    ELSE \/ {ToInt(FirstDigitRun(a)), ToInt(FirstDigitRun(b))} \subseteq {8, 10, 18}
         \/ Abs(ToInt(FirstDigitRun(a)) - ToInt(FirstDigitRun(b))) <= 2

\* C17: the selvedge rule is true if either text is empty or the texts are
\* equal; else false if a tooth count cannot be read from either text; else
\* true exactly when both counts are in {8, 10, 18} or differ by at most 2.
C17_SelvedgeRule ==
    call.fn = "selvedge_compatible"
    => call.out = SelvedgeRule(Strip(call.args[1]), Strip(call.args[2]))

\* 8 against 18 teeth passes by the set {8, 10, 18} alone.
C17_Witness ==
    /\ call.fn = "selvedge_compatible"
    /\ call.args = <<<<"8", " ", "D">>, <<"1", "8">>>>
    /\ call.out = TRUE

\* 20 against 25 teeth fails, 8 against 10 passes.
C17_Examples ==
    /\ ~SelvedgeCompatibleAuto(<<"2", "0", " ", "D">>, <<"2", "5", " ", "D">>)
    /\ SelvedgeCompatibleAuto(<<"8", " ", "D">>, <<"1", "0", " ", "D">>)

\* C18: the weave rule is false exactly when neither code is empty and the
\* upper-cased first characters are "3" and "K", in either order.
C18_WeaveRule ==
    call.fn = "orgu_compatible"
    => LET a == Strip(call.args[1])
           b == Strip(call.args[2])
       IN call.out = ~(/\ a # <<>>
                       /\ b # <<>>
                       /\ {UpperChar(a[1]), UpperChar(b[1])} = {"3", "K"})

\* A job code that begins with "3" against a machine code that begins with
\* a lower-case "k" fails.
C18_Witness ==
    /\ call.fn = "orgu_compatible"
    /\ call.args = <<<<"3", "A">>, <<"k", "1">>>>
    /\ call.out = FALSE

(***************************************************************************)
(* The team planning tab.                                                  *)
(***************************************************************************)
\* C19: in the team planning tab no machine is recorded for two different
\* jobs: whichever way a machine is chosen for a job (next free machine,
\* the picker's list, the manual list), it is not a machine recorded for
\* another job since the last reset.
C19_NoMachineForTwoJobs ==
    \A i, j \in 1..Len(assignments) :
       (i # j /\ assignments[i] # NoAssign /\ assignments[j] # NoAssign)
       => AssignedMachine(assignments[i]) # AssignedMachine(assignments[j])

\* The picker's own list never holds a machine recorded for another job.
TieredNeverYieldsUsed ==
    (call.fn = "assign" /\ call.way = "tiered")
    => AssignedMachine([loom |-> call.loom]) \notin call.held

\* The next free machine is never a machine recorded for another job.
DugumNeverYieldsUsed ==
    (call.fn = "assign" /\ call.way = "dugum")
    => AssignedMachine([loom |-> call.loom]) \notin call.held

\* The next free machine is not recorded for another job when machine
\* numbers are read as text of whole numbers.
DugumNeverYieldsUsedPlain ==
    (call.fn = "assign" /\ call.way = "dugum" /\ df_looms = LoomTables_Plain)
    => AssignedMachine([loom |-> call.loom]) \notin call.held

(***************************************************************************)
(* Where the automatic run gives a group up.                               *)
(***************************************************************************)
\* The machines of the run's list that are not used yet.
UnusedLooms == {p \in 1..Len(looms) : looms[p].Tezgah \notin used_looms}

\* The unassigned jobs of the group the run is at.
GroupCandidates ==
    CandidateRows(df_jobs, CurrentKey(df_jobs, current_group_label), current_category)

\* Job i fits none of the unused machines.
FitsNoUnusedLoom(i) == \A p \in UnusedLooms : ~AutoCompatible(df_jobs[i], looms[p])

\* C20: whenever the automatic run stops a group that still has unassigned
\* jobs, no unassigned job of the group without a remark is compatible with
\* any machine of the list that is still unused.
C20_StopsOnlyWhenNoJobFits ==
    ev.op = "auto_halt"
    => \A i \in GroupCandidates : ~HasRemark(df_jobs[i].note) => FitsNoUnusedLoom(i)

\* Whenever the automatic run stops a group that still has unassigned jobs,
\* the earliest due unassigned job of the group is compatible with no
\* machine of the list that is still unused, and has no remark if such a
\* machine is left.
C20_StopsWhenEarliestJobFitsNone ==
    ev.op = "auto_halt"
    => LET idx == FirstJob(df_jobs, CurrentKey(df_jobs, current_group_label),
                           current_category)
       IN /\ idx # 0
          /\ FitsNoUnusedLoom(idx)
          /\ UnusedLooms # {} => ~HasRemark(df_jobs[idx].note)

\* The run has stopped a group with unused machines left, one of which a
\* later job of the group would fit.
C20_Witness ==
    /\ ev.op = "auto_halt"
    /\ UnusedLooms # {}
    /\ \E i \in GroupCandidates : ~HasRemark(df_jobs[i].note) /\ ~FitsNoUnusedLoom(i)

(***************************************************************************)
(* What the automatic run commits.                                         *)
(***************************************************************************)
\* The rows of the machine table whose Tezgah No reads m.
RowsOfMachine(m) == {k \in 1..Len(df_looms) : Strip(Str(df_looms[k].tz)) = m}

\* C21: every assignment the automatic run commits pairs a job without a
\* remark with a machine that is eligible for the job's category, is in
\* neither restriction set, carries the job's reed key, is open or within
\* the threshold, and is compatible with the job by the weave rule and by
\* the selvedge rule.
C21_AutoAssignsOnlyFittingPairs ==
    ev.op = "auto_assign"
    => /\ ~HasRemark(df_jobs[ev.job].note)
       /\ CatMatches(df_jobs[ev.job].cat, current_category)
       /\ \E k \in RowsOfMachine(ev.loom) :
             /\ LoomInCategory(ToInt(FirstDigitRun(ev.loom)), current_category)
             /\ FirstDigitRun(ev.loom) \notin blocked_looms \cup dummy_looms
             /\ Str(df_looms[k].key) = Str(df_jobs[ev.job].key)
             /\ \/ df_looms[k].open = TRUE
                \/ df_looms[k].kalan # None /\ df_looms[k].kalan <= plan_threshold_m
             /\ OrguCompatible(Strip(Str(df_jobs[ev.job].orgu)), Strip(Str(df_looms[k].orgu)))
             /\ SelvedgeCompatibleAuto(Strip(Str(df_jobs[ev.job].sup)),
                                       Strip(Str(df_looms[k].sup)))

\* The run has given a job with a weave code a machine that is about to
\* open, while a machine is under restriction.
C21_Witness ==
    /\ ev.op = "auto_assign"
    /\ blocked_looms \cup dummy_looms # {}
    /\ Strip(Str(df_jobs[ev.job].orgu)) = <<"3", "A">>
    /\ \E k \in RowsOfMachine(ev.loom) : df_looms[k].open # TRUE

(***************************************************************************)
(* The restricted machines read from storage.                              *)
(***************************************************************************)
\* The machine numbers of the stored entries that have digits.
StoredNumbers(items) ==
    {FirstDigitRun(Str(items[k])) : k \in 1..Len(items)} \ {<<>>}

\* C30: the restriction sets the planning dialog loads hold the machine
\* number of every stored under-maintenance and dummy entry that has digits,
\* also when some stored entry has none.
C30_MalformedEntryIgnored ==
    call.fn = "load_restricted"
    => /\ StoredNumbers(call.args[1]) \subseteq blocked_looms
       /\ StoredNumbers(call.args[2]) \subseteq dummy_looms

\* The sets the team planning tab loads hold every stored machine number.
FlowMalformedEntryIgnored ==
    call.fn = "load_restricted"
    => /\ StoredNumbers(call.args[1]) = call.flow.blocked
       /\ StoredNumbers(call.args[2]) = call.flow.dummy

\* The sets of the planning dialog hold every stored machine number when
\* every stored entry has digits.
WellFormedEntriesLoaded ==
    (/\ call.fn = "load_restricted"
     /\ \A k \in 1..Len(call.args[1]) : FirstDigitRun(call.args[1][k]) # <<>>
     /\ \A k \in 1..Len(call.args[2]) : FirstDigitRun(call.args[2][k]) # <<>>)
    => /\ StoredNumbers(call.args[1]) = blocked_looms
       /\ StoredNumbers(call.args[2]) = dummy_looms

(***************************************************************************)
(* Skipped jobs and machines.                                              *)
(***************************************************************************)
\* C22: marking a job skipped in the automatic run consumes no machine: the
\* set of used machines and the count of assignments are unchanged by the
\* skip, and the machine that was examined (the first unused one) is still
\* unused for the next job of the group.
C22_SkipConsumesNoMachine ==
    [][(/\ pc = "loop"
        /\ \E i \in 1..Len(df_jobs) : df_jobs[i].tz # Atla /\ df_jobs'[i].tz = Atla)
       => /\ ev'.op = "auto_skip"
          /\ used_looms' = used_looms
          /\ assigned_count' = assigned_count
          /\ UnusedLooms # {}
          /\ UnusedLooms' = UnusedLooms
          /\ df_jobs' = SetTz(df_jobs, ev'.job, Atla)]_vars

\* A job was skipped while the first machine of the list was examined, and
\* that machine has now been given to a later job of the group.
C22_Witness ==
    /\ ev.op = "auto_assign"
    /\ SkippedInCall # {}
    /\ Cardinality(AssignedInCall) = 1
    /\ ev.loom = looms[1].Tezgah

\* The compatibility questions _assign_first_job would put for the job of the
\* last manual event and the clicked machine: the weave question when both
\* weave codes are present and not compatible, the selvedge question when
\* both selvedge texts are present and differ.
ManualChecks ==
    LET job_orgu == Strip(Str(df_jobs[ev.job].orgu))
        job_sup == Strip(Str(df_jobs[ev.job].sup))
    IN (IF job_orgu # <<>> /\ ClickedLoom.Orgu # <<>>
           /\ ~OrguCompatible(job_orgu, ClickedLoom.Orgu) THEN {"orgu"} ELSE {})
       \cup (IF job_sup # <<>> /\ ClickedLoom.SusKenar # <<>>
                /\ job_sup # ClickedLoom.SusKenar THEN {"sup"} ELSE {})

\* The clicked machine is still a row of one of the two machine tables.
ClickedLoomStillListed ==
    \/ \E k \in 1..Len(model_free) : Strip(model_free[k].Tezgah) = ev.loom
    \/ \E k \in 1..Len(model_soon) : Strip(model_soon[k].Tezgah) = ev.loom

\* C23: in the interactive allocator a job with a remark (a weft shortage is
\* a remark) gets the confirm/skip question before any compatibility check:
\* the question is always among those asked; when the call ended on it, the
\* job is marked Atla, no weave or selvedge question was put and the clicked
\* machine stays on its table; when it was
\* confirmed, the weave and selvedge checks follow, the first failing one
\* being asked.
C23_RemarkDecidedBeforeChecks ==
    (ManualEvent /\ HasRemark(df_jobs[ev.job].note))
    => /\ "note" \in ev.asked
       /\ (ev.op = "manual_skip" /\ ~DecisionSurfaced)
          => /\ df_jobs[ev.job].tz = Atla
             /\ ClickedLoomStillListed
       /\ (ev.op # "manual_skip" \/ DecisionSurfaced)
          => /\ "orgu" \in ManualChecks => "orgu" \in ev.asked
             /\ (ManualChecks = {"sup"}) => "sup" \in ev.asked
             /\ ev.asked \ {"note"} \subseteq ManualChecks

\* The operator declined at the remark question while the clicked machine
\* fails a compatibility check that was therefore never put.
C23_Witness ==
    /\ ManualEvent /\ HasRemark(df_jobs[ev.job].note)
    /\ StoppedAtRemark
    /\ ManualChecks # {}
    /\ df_jobs[ev.job].tz = Atla

\* The remark was confirmed and the call went on to a compatibility question.
RemarkConfirmedThenAsked ==
    /\ ManualEvent /\ HasRemark(df_jobs[ev.job].note)
    /\ "note" \in ev.asked /\ DecisionSurfaced

(***************************************************************************)
(* The tiers of the picker.                                                *)
(***************************************************************************)
\* The row of the machine table behind the k-th candidate of the picker.
CandidateRow(k) ==
    CHOOSE i \in 1..Len(df_looms) : Str(df_looms[i].tz) = call.out[k]

\* The positions of the picker's list that hold a machine of reed group tg
\* in tier b.
TierPositions(tg, b) ==
    {k \in 1..Len(call.out) : TgOf(CandidateRow(k)) = tg /\ call.bucket[k] = b}

\* The eligible, unused, non-restricted machines of reed groups other than
\* the target that have no job at all.
ZeroBacklogMachines ==
    {i \in PickerEligible :
        /\ TgOf(i) # <<>>
        /\ TgOf(i) # NormTarakGeneric(call.args[1])
        /\ JobsTotalForTg(df_jobs, TgOf(i)) = 0}

\* Machine i is open, or its remaining yardage is within the threshold.
OpenOrWithinThreshold(i) ==
    \/ df_looms[i].open = TRUE
    \/ (df_looms[i].kalan # None /\ df_looms[i].kalan <= call.args[3])

\* C24 as first stated: every eligible, unused, non-restricted machine of a
\* reed group other than the target with no job appears in the list of the
\* picker as Tier 0.
C24_ZeroBacklogMachinesListed ==
    call.fn = "picker"
    => \A i \in ZeroBacklogMachines :
          \E k \in TierPositions(TgOf(i), 0) : CandidateRow(k) = i

\* C24: every eligible, unused, non-restricted machine of a reed group other
\* than the target with no job that is open or within the threshold appears
\* in the list of the picker as Tier 0; one that is neither is not listed.
C24_OpenOrClosingZeroBacklogListed ==
    call.fn = "picker"
    => \A i \in ZeroBacklogMachines :
          OpenOrWithinThreshold(i)
          <=> \E k \in TierPositions(TgOf(i), 0) : CandidateRow(k) = i

\* The picker lists a machine that is about to run out, of a group without
\* jobs, as Tier 0, while another machine of such a group is left out.
C24_Witness ==
    /\ call.fn = "picker"
    /\ \E i \in ZeroBacklogMachines :
          /\ df_looms[i].open # TRUE
          /\ \E k \in TierPositions(TgOf(i), 0) : CandidateRow(k) = i
    /\ \E i \in ZeroBacklogMachines : ~OpenOrWithinThreshold(i)

\* The reed groups of the machine table that have jobs.
BackloggedGroups ==
    {TgOf(i) : i \in 1..Len(df_looms)} \ {tg \in {TgOf(i) : i \in 1..Len(df_looms)} :
                                             JobsTotalForTg(df_jobs, tg) = 0}

\* The count of eligible active machines of a group less its job backlog.
Excess(tg) ==
    ActiveLoomsForTg(df_looms, tg, call.args[2], PickerExclude)
    - JobsTotalForTg(df_jobs, tg)

\* C25: of a reed group with jobs, at most (eligible active machines - jobs)
\* machines are Tier-1 candidates of the picker, none when the machines do
\* not outnumber the jobs.
C25_TierOneTakesOnlyExcess ==
    call.fn = "picker"
    => \A tg \in BackloggedGroups :
          /\ Excess(tg) > 0 => Cardinality(TierPositions(tg, 1)) <= Excess(tg)
          /\ Excess(tg) <= 0 => TierPositions(tg, 1) = {}

\* A group with jobs gives its whole excess as Tier 1 while one more of its
\* machines, open or within the threshold, is not listed.
C25_Witness ==
    /\ call.fn = "picker"
    /\ \E tg \in BackloggedGroups :
          /\ Excess(tg) > 0
          /\ Cardinality(TierPositions(tg, 1)) = Excess(tg)
          /\ \E i \in PickerEligible :
                /\ TgOf(i) = tg /\ OpenOrWithinThreshold(i)
                /\ \A k \in 1..Len(call.out) : CandidateRow(k) # i

\* A group whose machines do not outnumber its jobs has an eligible open
\* machine, and the list holds none of that group.
NoExcessNoTierOne ==
    /\ call.fn = "picker"
    /\ \E tg \in BackloggedGroups \ {NormTarakGeneric(call.args[1])} :
          /\ Excess(tg) <= 0
          /\ \E i \in PickerEligible : TgOf(i) = tg /\ OpenOrWithinThreshold(i)
          /\ \A k \in 1..Len(call.out) : TgOf(CandidateRow(k)) # tg

\* The sort key of the k-th candidate: tier, open before not open, within
\* the threshold before not within, machine number.
CandidateKey(k) ==
    LET r == df_looms[CandidateRow(k)]
    IN <<call.bucket[k],
         IF r.open = TRUE THEN 0 ELSE 1,
         IF r.kalan # None /\ r.kalan <= call.args[3] THEN 0 ELSE 1,
         LoomNoAsInt(r.tz)>>

\* C26: the list of the picker is in the order of the key (tier, open first,
\* within the threshold first, machine number): of any two candidates the
\* one with the smaller key comes first, and no two share a key.
C26_ListOrderedByKey ==
    call.fn = "picker"
    => \A k, l \in 1..Len(call.out) :
          k < l => TupleLess(CandidateKey(k), CandidateKey(l))

\* The list holds both tiers, a Tier-0 machine with a higher number than a
\* Tier-1 machine, and within a tier an open machine after one with a
\* higher number whose yardage is within the threshold.
C26_Witness ==
    /\ call.fn = "picker"
    /\ \E k, l \in 1..Len(call.out) :
          /\ k < l
          /\ call.bucket[k] = 0 /\ call.bucket[l] = 1
          /\ CandidateKey(k)[4] > CandidateKey(l)[4]
    /\ \E k, l \in 1..Len(call.out) :
          /\ k < l
          /\ call.bucket[k] = call.bucket[l]
          /\ CandidateKey(k)[3] < CandidateKey(l)[3]
          /\ CandidateKey(k)[4] > CandidateKey(l)[4]

(***************************************************************************)
(* One group of the automatic run and the groups after it.                 *)
(***************************************************************************)
\* The jobs whose Tezgah Numarasi differs from what it was when the current
\* group of the run was entered.
ChangedInGroup == {i \in 1..Len(df_jobs) : df_jobs[i].tz # tz0[i]}

\* Job i belongs to the (reed group key, category) pair the run is at.
InCurrentPair(i) ==
    /\ Str(df_jobs[i].key) = CurrentKey(df_jobs, current_group_label)
    /\ df_jobs[i].cat = current_category

\* C28: the automatic allocator for one (reed group, category) pair changes
\* Tezgah Numarasi only of jobs of that group key and category, step by step
\* and over the whole group; a group that stops for lack of progress hands
\* the run on: it is taken off the list of groups, the run goes on with the
\* next group of the list as long as there is one, and it returns only when
\* the list is empty.
C28_GroupRunTouchesOnlyItsJobs ==
    [][/\ pc = "loop"
          => \A i \in 1..Len(df_jobs) : df_jobs'[i].tz # df_jobs[i].tz => InCurrentPair(i)
       /\ pc' \in {"loop", "groups"} /\ tz0' # <<>>
          => \A i \in 1..Len(df_jobs) :
                df_jobs'[i].tz # tz0'[i]
                => /\ Str(df_jobs[i].key) = CurrentKey(df_jobs', current_group_label')
                   /\ df_jobs[i].cat = current_category'
       /\ ev'.op = "auto_halt" => pc' = "groups" /\ queue' = Tail(queue)
       /\ pc = "groups" /\ queue # <<>>
          => /\ current_group_label' = Head(queue)[1]
             /\ current_category' = Head(queue)[2]
             /\ \/ pc' = "loop" /\ queue' = queue
                \/ pc' = "groups" /\ queue' = Tail(queue)
       /\ pc = "groups" /\ pc' = "idle" => queue = <<>>]_vars

\* A group has stopped for lack of progress after assigning a job, a job of
\* another category is still without a machine, and a group remains on the
\* list.
C28_Witness ==
    /\ ev.op = "auto_halt"
    /\ pc = "groups"
    /\ queue # <<>>
    /\ ChangedInGroup # {}
    /\ \A i \in ChangedInGroup : InCurrentPair(i)
    /\ \E i \in 1..Len(df_jobs) : df_jobs[i].cat # current_category /\ Unassigned(df_jobs[i].tz)

(***************************************************************************)
(* The session of the team planning tab.                                   *)
(***************************************************************************)
\* C27: _used_looms_global and the knot machines of _used_looms only grow:
\* no step but the reset takes a machine out of them, be it a group
\* selected, the threshold changed, the tables handed over again or a
\* picker closed without a choice; the reset leaves only the machines the
\* jobs of the bound group came with.
C27_UsedSetOnlyGrows ==
    [][/\ call'.fn # "reset"
          => /\ used_looms_global \subseteq used_looms_global'
             /\ flow_used_looms \subseteq flow_used_looms'
       /\ call'.fn = "reset"
          => /\ used_looms_global' = InitialDigits(df_jobs, team_group)
             /\ flow_used_looms' = {}]_vars

\* A machine given in this session is still in the set after the tables were
\* handed over again.
C27_Witness ==
    /\ call.fn = "refresh"
    /\ \E i \in 1..Len(assignments) :
          /\ assignments[i] # NoAssign
          /\ i \notin InitialRows(df_jobs, team_group)
          /\ Strip(Str(assignments[i].loom)) \in used_looms_global

\* The same after the threshold was changed.
UsedKeptOverThreshold ==
    /\ call.fn = "threshold"
    /\ flow_used_looms # {}
    /\ \A u \in flow_used_looms : u[3] \in used_looms_global

\* The same after a picker was closed without a choice.
UsedKeptOverCancel ==
    /\ call.fn = "no_assign"
    /\ flow_used_looms # {}
    /\ \A u \in flow_used_looms : u[3] \in used_looms_global

\* The list _ordered_candidate_looms would compute for a pair from the
\* machine table, the threshold and the restriction sets as they are now.
CurrentCandidateLooms(tg_norm, grp_type) ==
    OrderedCandidateLooms(df_looms, tg_norm, grp_type, blocked_looms, dummy_looms,
                          flow_threshold_m)

\* The last step gave a job a knot machine, taken by _next_free_loom.
KnotGiven == call.fn = "assign" /\ call.way = "dugum"

\* C29: every list of _ordered_looms_cache equals the list that would be
\* computed now for its (reed group, category) pair, and a knot machine that
\* was just given stands in the list of the current machine table.
C29_CacheIsCurrent ==
    /\ \A c \in ordered_looms_cache : c[2] = CurrentCandidateLooms(c[1][1], c[1][2])
    /\ KnotGiven
       => \E k \in 1..Len(CurrentCandidateLooms(team_group.tg, team_group.grp_type)) :
             CurrentCandidateLooms(team_group.tg, team_group.grp_type)[k] = call.loom

\* After the threshold was changed or the session was reset the cache holds
\* no list.
CacheClearedByThresholdAndReset ==
    call.fn \in {"threshold", "reset"} => ordered_looms_cache = {}

\* A knot machine was given that the current machine table does not hold.
KnotFromPreviousTable ==
    /\ KnotGiven
    /\ \A i \in 1..Len(df_looms) : Str(df_looms[i].tz) # call.loom

====
